---- MODULE Spec2Model ----
(***************************************************************************)
(* Deshavu: a client-side video library.  The model covers the embedded    *)
(* store (services/db.ts), the AuthProvider (login, signup, logout and     *)
(* the startup check), the Auth and SignupModal forms, and the App         *)
(* component (loadUserData, handleUpload, handleSearch, face filtering)    *)
(* together with the upload modal's handleSubmit.                          *)
(*                                                                         *)
(* Strings that the code inspects character by character (emails and       *)
(* passwords) are sequences of one-character strings.  Messages shown to   *)
(* the user are TLA+ strings.  An absent value (null / undefined) of an    *)
(* optional string is the empty sequence, a present one a one-element      *)
(* sequence.                                                               *)
(***************************************************************************)
EXTENDS Integers, Sequences, FiniteSets, TLC

\* ------------------------------------------------------------------ bounds
MaxUsers == 2
MaxVideos == 2
MaxLoads == 2
MaxSearches == 2
MaxRenames == 2

\* the ids of the faces, the videos and the messages the model makes room for
MaxFaceIds == MaxVideos + 1
MaxChat == 2 * MaxSearches

\* --------------------------------------------------------- program constants
FrameCount == 12

\* ------------------------------------------------------------ input domains
EmailA == <<"a", "@", "b", ".", "c">>
EmailUpperA == <<"A", "@", "b", ".", "c">>
EmailD == <<"d", "@", "b", ".", "c">>
EmailNoDot == <<"a", "@", "b">>
EmailInputs == {EmailA, EmailUpperA, EmailD, EmailNoDot, <<>>}

PasswordGood == <<"p", "p", "p", "p", "p", "p">>
PasswordOther == <<"q", "q", "q", "q", "q", "q">>
PasswordShort == <<"p", "p">>
PasswordBlank == <<" ">>
PasswordInputs == {PasswordGood, PasswordOther, PasswordShort, PasswordBlank}

\* the number of faces an analysis result may hold
FaceCounts == {0, 1, 2}

\* ------------------------------------------------------------------ strings
\* UTF-16 code units of the characters the inputs use
CharCode(c) ==
    CASE c = " " -> 32
      [] c = "." -> 46
      [] c = "@" -> 64
      [] c = "A" -> 65
      [] c = "a" -> 97
      [] c = "b" -> 98
      [] c = "c" -> 99
      [] c = "d" -> 100
      [] c = "p" -> 112
      [] c = "q" -> 113
      [] OTHER -> 0

ToLowerChar(c) == IF c = "A" THEN "a" ELSE c

toLowerCase(s) == [i \in 1..Len(s) |-> ToLowerChar(s[i])]

IsSpace(c) == c = " "

RECURSIVE trimStart(_)
trimStart(s) == IF s # <<>> /\ IsSpace(Head(s)) THEN trimStart(Tail(s)) ELSE s

RECURSIVE trimEnd(_)
trimEnd(s) ==
    IF s # <<>> /\ IsSpace(s[Len(s)]) THEN trimEnd(SubSeq(s, 1, Len(s) - 1)) ELSE s

trim(s) == trimEnd(trimStart(s))

\* /^[^\s@]+@[^\s@]+\.[^\s@]+$/ : one '@', no white space, a non-empty local
\* part, and a '.' after the '@' with at least one character on either side
validateEmail(s) ==
    \E at \in 1..Len(s) :
        /\ s[at] = "@"
        /\ at > 1
        /\ \A i \in 1..Len(s) : ~IsSpace(s[i]) /\ (s[i] = "@" => i = at)
        /\ \E dot \in (at + 2)..(Len(s) - 1) : s[dot] = "."

\* order of two strings as keys of an IndexedDB index (by code unit)
RECURSIVE KeyLess(_, _)
KeyLess(s, t) ==
    IF t = <<>> THEN FALSE
    ELSE IF s = <<>> THEN TRUE
    ELSE IF CharCode(Head(s)) # CharCode(Head(t))
         THEN CharCode(Head(s)) < CharCode(Head(t))
         ELSE KeyLess(Tail(s), Tail(t))

\* String(n) for the ids the model uses, and parseInt(s, 10) of such a string
String(n) == ToString(n)

parseInt(s) == CHOOSE n \in 0..(MaxUsers + 1) : ToString(n) = s

\* ------------------------------------------------------------------ records
NoUser == [id |-> 0, email |-> <<>>]

\* the name null of a face nobody has named: a sequence that no string
\* equals, its one item being no character
Null == <<"null">>
NoError == ""

MsgNoAccount == "No account found with this email. Please sign up."
MsgExists == "An account with this email already exists."
MsgCreateFailed == "Failed to create a new user account."
MsgConstraint == "ConstraintError"
MsgLoginBlank == "Please enter your email and password."
MsgSignupBlank == "Please enter both email and password."
MsgInvalidEmail == "Please enter a valid email address."
MsgShortPassword == "Password must be at least 6 characters long."

MsgLoadFailed == "Could not load user data from the database."

\* ---------------------------------------------------------------- the store
\* db.users.where('email').equalsIgnoreCase(email).first(): the matching record
\* that comes first in the email index, NoUser (undefined) when none matches
getUserByEmail(tbl, email) ==
    LET hits == {i \in 1..Len(tbl) : toLowerCase(tbl[i].email) = toLowerCase(email)}
    IN  IF hits = {} THEN NoUser
        ELSE tbl[CHOOSE i \in hits :
                    \A j \in hits \ {i} : KeyLess(tbl[i].email, tbl[j].email)]

\* db.users.get(id)
getFirstUser(tbl, id) == IF tbl # <<>> THEN tbl[1] ELSE NoUser

getUserById(tbl, id) == IF id \in 1..Len(tbl) THEN tbl[id] ELSE NoUser

\* db.users.add({ email }) under the schema '++id, &email': the unique index
\* refuses an email that is stored already, character for character
createUserFails(tbl, email) == \E i \in 1..Len(tbl) : tbl[i].email = email

createUser(tbl, email) == Append(tbl, [id |-> Len(tbl) + 1, email |-> email])

\* --------------------------------------------------------------- the state
VARIABLES
    users,          \* db.users, in order of the auto-incremented id
    dbVideos,       \* db.videos, a set of Video records
    dbFaces,        \* db.faces, a set of Face records
    session,        \* sessionStorage item 'deshavu_userId': <<>> or <<string>>
    currentUser,    \* AuthProvider.currentUser
    authLoading,    \* AuthProvider.isLoading
    loginForm,      \* Auth: error, isLoading, isSignupModalOpen, the call in flight
    signupForm,     \* SignupModal: error, isLoading, the call in flight
    videos,         \* App.videos
    allFaces,       \* App.allFaces
    isLoading,      \* App.isLoading
    error,          \* App.error
    loads,          \* the loadUserData calls in flight
    chatHistory,    \* App.chatHistory
    searchActive,   \* App.searchActive
    selectedFaceIds, \* App.selectedFaceIds
    searches,       \* the handleSearch calls in flight
    isModalOpen,    \* App.isModalOpen
    modal,          \* VideoUploadModal: videoFile, error, isAnalyzing, handleSubmit
    uploads,        \* the handleUpload calls in flight
    unhandled,      \* rejections of promises nobody handles
    renames,        \* the handleNameFace calls in flight
    otherTab,       \* the signup call of another tab on the same database
    nextVideoId,    \* the next fresh video id
    nextFaceId      \* the next fresh face id

dbVars == <<users, dbVideos, dbFaces>>
authVars == <<session, currentUser, authLoading, loginForm, signupForm>>
libVars == <<videos, allFaces, isLoading, error, loads>>
searchVars == <<chatHistory, searchActive, selectedFaceIds, searches>>
uploadVars ==
    <<isModalOpen, modal, uploads, unhandled, renames, otherTab, nextVideoId, nextFaceId>>
vars == <<dbVars, authVars, libVars, searchVars, uploadVars>>

LoginFormInit ==
    [error |-> NoError, isLoading |-> FALSE, isSignupModalOpen |-> FALSE,
     pc |-> "idle", email |-> <<>>, password |-> <<>>]

SignupFormInit ==
    [error |-> NoError, isLoading |-> FALSE, pc |-> "idle",
     email |-> <<>>, password |-> <<>>]

\* no signup is in flight in the other tab
OtherTabInit == [pc |-> "idle", email |-> <<>>]

\* the Auth page is what App renders
AuthShown == ~authLoading /\ currentUser = NoUser

\* the main page is what App renders
MainShown == ~authLoading /\ currentUser # NoUser

\* ------------------------------------------------------------ loadUserData
\* the call itself, up to its first await: nothing without a user id, else
\* isLoading is set and the two reads are issued
loadUserData(user) ==
    IF user.id = 0
    THEN UNCHANGED <<isLoading, loads>>
    ELSE /\ isLoading' = TRUE
         /\ loads' = Append(loads, [userId |-> user.id,
                                    videosRead |-> FALSE, videos |-> <<>>,
                                    facesRead |-> FALSE, faces |-> <<>>])

CanLoad == Len(loads) < MaxLoads

\* ------------------------------------------------------------ AuthProvider
\* the effect that runs once when the provider mounts
checkLoggedInUser ==
    /\ authLoading
    /\ LET user == IF session = <<>> THEN NoUser
                   ELSE getUserById(users, parseInt(session[1]))
       IN  /\ currentUser' = user
           /\ CanLoad
           /\ loadUserData(user)
    /\ authLoading' = FALSE
    /\ UNCHANGED <<dbVars, session, loginForm, signupForm, videos, allFaces, error,
                 searchVars, uploadVars>>

\* checkLoggedInUser when getUserById rejects: the catch and the finally
checkLoggedInUserFailed ==
    /\ authLoading
    /\ session # <<>>
    /\ currentUser' = NoUser
    /\ authLoading' = FALSE
    /\ UNCHANGED <<dbVars, session, loginForm, signupForm, libVars,
                 searchVars, uploadVars>>

\* login(email, password) once the lookup has resolved
loginChecksPassword(tbl, email, password) ==
    LET user == getUserByEmail(tbl, email)
    IN  IF user = NoUser \/ user.id = 0 \/ password # PasswordGood
        THEN [ok |-> FALSE, user |-> NoUser, error |-> MsgNoAccount]
        ELSE [ok |-> TRUE, user |-> user, error |-> NoError]

loginWithoutCheck(tbl, email, password) ==
    [ok |-> TRUE, user |-> getUserByEmail(tbl, email), error |-> NoError]

login(tbl, email, password) ==
    LET user == getUserByEmail(tbl, email)
    IN  IF user = NoUser \/ user.id = 0
        THEN [ok |-> FALSE, user |-> NoUser, error |-> MsgNoAccount]
        ELSE [ok |-> TRUE, user |-> user, error |-> NoError]

\* Auth.handleLogin up to the await of login
handleLogin(email, password) ==
    /\ AuthShown
    /\ ~loginForm.isSignupModalOpen
    /\ ~loginForm.isLoading
    /\ loginForm' =
         IF trim(email) = <<>> \/ trim(password) = <<>>
         THEN [loginForm EXCEPT !.error = MsgLoginBlank]
         ELSE IF ~validateEmail(email)
         THEN [loginForm EXCEPT !.error = MsgInvalidEmail]
         ELSE [loginForm EXCEPT !.isLoading = TRUE, !.error = NoError,
                                !.pc = "lookup", !.email = email,
                                !.password = password]
    /\ UNCHANGED <<dbVars, session, currentUser, authLoading, signupForm,
                 libVars, searchVars, uploadVars>>

\* the lookup resolves: login finishes, then handleLogin's catch and finally.
\* A successful login replaces the Auth page by the main page, and the effect
\* on loadUserData runs for the new user
LoginComplete ==
    /\ loginForm.pc = "lookup"
    /\ LET r == login(users, loginForm.email, loginForm.password)
       IN  IF r.ok
           THEN /\ CanLoad
                /\ currentUser' = r.user
                /\ session' = <<String(r.user.id)>>
                /\ loginForm' = LoginFormInit
                /\ loadUserData(r.user)
           ELSE /\ loginForm' = [loginForm EXCEPT !.error = r.error,
                                    !.isLoading = FALSE, !.pc = "idle",
                                    !.email = <<>>, !.password = <<>>]
                /\ UNCHANGED <<currentUser, session, isLoading, loads>>
    /\ UNCHANGED <<dbVars, authLoading, signupForm, videos, allFaces, error,
                 searchVars, uploadVars>>

OpenSignupModal ==
    /\ AuthShown
    /\ ~loginForm.isLoading
    /\ ~loginForm.isSignupModalOpen
    /\ loginForm' = [loginForm EXCEPT !.isSignupModalOpen = TRUE]
    /\ signupForm' = SignupFormInit
    /\ UNCHANGED <<dbVars, session, currentUser, authLoading,
                 libVars, searchVars, uploadVars>>

CloseSignupModal ==
    /\ AuthShown
    /\ loginForm.isSignupModalOpen
    /\ ~signupForm.isLoading
    /\ loginForm' = [loginForm EXCEPT !.isSignupModalOpen = FALSE]
    /\ signupForm' = SignupFormInit
    /\ UNCHANGED <<dbVars, session, currentUser, authLoading,
                 libVars, searchVars, uploadVars>>

\* handleSignup with the length of the password checked before the email
handleSignupLengthFirst(email, password) ==
    /\ AuthShown
    /\ loginForm.isSignupModalOpen
    /\ ~signupForm.isLoading
    /\ Len(users) < MaxUsers
    /\ signupForm' =
         IF trim(email) = <<>> \/ trim(password) = <<>>
         THEN [signupForm EXCEPT !.error = MsgSignupBlank]
         ELSE IF Len(password) < 6
         THEN [signupForm EXCEPT !.error = MsgShortPassword]
         ELSE IF ~validateEmail(email)
         THEN [signupForm EXCEPT !.error = MsgInvalidEmail]
         ELSE [signupForm EXCEPT !.isLoading = TRUE, !.error = NoError,
                                 !.pc = "check", !.email = email,
                                 !.password = password]
    /\ UNCHANGED <<dbVars, session, currentUser, authLoading, loginForm,
                 libVars, searchVars, uploadVars>>

\* SignupModal.handleSignup up to the await of signup
handleSignup(email, password) ==
    /\ AuthShown
    /\ loginForm.isSignupModalOpen
    /\ ~signupForm.isLoading
    /\ Len(users) < MaxUsers
    /\ signupForm' =
         IF trim(email) = <<>> \/ trim(password) = <<>>
         THEN [signupForm EXCEPT !.error = MsgSignupBlank]
         ELSE IF ~validateEmail(email)
         THEN [signupForm EXCEPT !.error = MsgInvalidEmail]
         ELSE IF Len(password) < 6
         THEN [signupForm EXCEPT !.error = MsgShortPassword]
         ELSE [signupForm EXCEPT !.isLoading = TRUE, !.error = NoError,
                                 !.pc = "check", !.email = email,
                                 !.password = password]
    /\ UNCHANGED <<dbVars, session, currentUser, authLoading, loginForm,
                 libVars, searchVars, uploadVars>>

\* signup: getUserByEmail has resolved
signupExistsExactCase(tbl, email) == \E i \in 1..Len(tbl) : tbl[i].email = email

signupExists(tbl, email) == getUserByEmail(tbl, email) # NoUser

SignupCheck ==
    /\ signupForm.pc = "check"
    /\ signupForm' =
         IF signupExists(users, signupForm.email)
         THEN [signupForm EXCEPT !.error = MsgExists, !.isLoading = FALSE,
                                 !.pc = "idle", !.email = <<>>, !.password = <<>>]
         ELSE [signupForm EXCEPT !.pc = "create"]
    /\ UNCHANGED <<dbVars, session, currentUser, authLoading, loginForm,
                 libVars, searchVars, uploadVars>>

\* signup: createUser and getUserById have resolved, then handleSignup's
\* onClose, catch and finally
SignupCreate ==
    /\ signupForm.pc = "create"
    /\ IF createUserFails(users, signupForm.email)
       THEN /\ signupForm' = [signupForm EXCEPT !.error = MsgConstraint,
                                 !.isLoading = FALSE, !.pc = "idle",
                                 !.email = <<>>, !.password = <<>>]
            /\ UNCHANGED <<users, currentUser, session, loginForm, isLoading, loads>>
       ELSE LET tbl == createUser(users, signupForm.email)
                newUser == getUserById(tbl, Len(tbl))
            IN  /\ CanLoad
                /\ users' = tbl
                /\ IF newUser = NoUser \/ newUser.id = 0
                   THEN /\ signupForm' = [signupForm EXCEPT
                                 !.error = MsgCreateFailed, !.isLoading = FALSE,
                                 !.pc = "idle", !.email = <<>>, !.password = <<>>]
                        /\ UNCHANGED <<currentUser, session, loginForm,
                                       isLoading, loads>>
                   ELSE /\ currentUser' = newUser
                        /\ session' = <<String(newUser.id)>>
                        /\ signupForm' = SignupFormInit
                        /\ loginForm' = LoginFormInit
                        /\ loadUserData(newUser)
    /\ UNCHANGED <<dbVideos, dbFaces, authLoading, videos, allFaces, error,
                 searchVars, uploadVars>>

\* signup(email, password) called in another tab, whose page shares the
\* database and nothing else: up to the await of getUserByEmail
OtherTabSignup(email) ==
    /\ otherTab.pc = "idle"
    /\ Len(users) < MaxUsers
    /\ otherTab' = [pc |-> "check", email |-> email]
    /\ UNCHANGED <<dbVars, authVars, libVars, searchVars, isModalOpen, modal, uploads,
                   unhandled, renames, nextVideoId, nextFaceId>>

\* the other tab's signup: getUserByEmail has resolved
OtherTabSignupCheck ==
    /\ otherTab.pc = "check"
    /\ otherTab' = IF signupExists(users, otherTab.email)
                   THEN OtherTabInit
                   ELSE [otherTab EXCEPT !.pc = "create"]
    /\ UNCHANGED <<dbVars, authVars, libVars, searchVars, isModalOpen, modal, uploads,
                   unhandled, renames, nextVideoId, nextFaceId>>

\* the other tab's signup: createUser has resolved or rejected
OtherTabSignupCreate ==
    /\ otherTab.pc = "create"
    /\ users' = IF createUserFails(users, otherTab.email)
                THEN users
                ELSE createUser(users, otherTab.email)
    /\ otherTab' = OtherTabInit
    /\ UNCHANGED <<dbVideos, dbFaces, authVars, libVars, searchVars, isModalOpen, modal,
                   uploads, unhandled, renames, nextVideoId, nextFaceId>>

logoutKeepsSession ==
    /\ MainShown
    /\ ~isModalOpen
    /\ currentUser' = NoUser
    /\ UNCHANGED <<dbVars, session, authLoading, loginForm, signupForm,
                   libVars, searchVars, uploadVars>>

logout ==
    /\ MainShown
    /\ ~isModalOpen                       \* the upload modal covers the page
    /\ currentUser' = NoUser
    /\ session' = <<>>
    /\ UNCHANGED <<dbVars, authLoading, loginForm, signupForm,
                   libVars, searchVars, uploadVars>>

\* ------------------------------------------------------------------ arrays
Range(s) == {s[i] : i \in 1..Len(s)}

RemoveAt(s, i) == SubSeq(s, 1, i - 1) \o SubSeq(s, i + 1, Len(s))

includes(arr, x) == \E i \in 1..Len(arr) : arr[i] = x

\* the records of a table in the order of their primary key
RECURSIVE InKeyOrder(_)
InKeyOrder(S) ==
    IF S = {} THEN <<>>
    ELSE LET first == CHOOSE r \in S : \A o \in S : r.id <= o.id
         IN  <<first>> \o InKeyOrder(S \ {first})

\* arr.sort((a, b) => b.id.localeCompare(a.id)): descending by id
RECURSIVE sortByIdDescending(_)
sortByIdDescending(arr) ==
    IF arr = <<>> THEN <<>>
    ELSE LET top == CHOOSE i \in 1..Len(arr) : \A j \in 1..Len(arr) : arr[j].id <= arr[i].id
         IN  <<arr[top]>> \o sortByIdDescending(RemoveAt(arr, top))

\* selectedFaceIds.every(faceId => video.faceIds.includes(faceId))
hasSomeFace(video, faceIds) ==
    \E k \in 1..Len(faceIds) : includes(video.faceIds, faceIds[k])

hasEveryFace(video, faceIds) ==
    \A k \in 1..Len(faceIds) : includes(video.faceIds, faceIds[k])

filterByFaces(arr, faceIds) == SelectSeq(arr, LAMBDA v : hasEveryFace(v, faceIds))

\* the useMemo of App: the filtered array, sorted
displayedVideosOf(arr, faceIds) ==
    sortByIdDescending(IF Len(faceIds) > 0 THEN filterByFaces(arr, faceIds) ELSE arr)

displayedVideos == displayedVideosOf(videos, selectedFaceIds)

\* Array.prototype.sort sorts in place: with no face selected the array that
\* is sorted is the videos array itself, so computing displayedVideos leaves
\* App.videos reordered; with a selection the sorted array is filter's copy
videosAfterRender(arr, faceIds) ==
    IF Len(faceIds) > 0 THEN arr ELSE sortByIdDescending(arr)

\* a handleSearch call in flight still holds the array it closed over; when
\* that array is the one sorted in place, the call sees the new order.  The
\* render follows a click on the face filter, so the call no longer runs
\* alone (its history fields alone and before are reset)
searchesAfterRender(ss, faceIds) ==
    [i \in 1..Len(ss) |->
        [ss[i] EXCEPT !.videos = IF ss[i].aliased THEN videosAfterRender(@, faceIds) ELSE @,
                      !.alone = FALSE, !.before = <<>>]]

\* setVideos replaces the array: the calls in flight keep the old one
searchesAfterSetVideos(ss) == [i \in 1..Len(ss) |-> [ss[i] EXCEPT !.aliased = FALSE]]

\* ----------------------------------------------------- loadUserData, resumed
\* db.getVideosForUser / db.getFacesForUser
getVideosForUser(userId) == InKeyOrder({v \in dbVideos : v.userId = userId})

getFacesForUser(userId) == InKeyOrder({f \in dbFaces : f.userId = userId})

LoadVideosRead(i) ==
    /\ i \in 1..Len(loads)
    /\ ~loads[i].videosRead
    /\ loads' = [loads EXCEPT ![i].videosRead = TRUE,
                              ![i].videos = getVideosForUser(loads[i].userId)]
    /\ UNCHANGED <<dbVars, authVars, videos, allFaces, isLoading, error,
                   searchVars, uploadVars>>

LoadFacesRead(i) ==
    /\ i \in 1..Len(loads)
    /\ ~loads[i].facesRead
    /\ loads' = [loads EXCEPT ![i].facesRead = TRUE,
                              ![i].faces = getFacesForUser(loads[i].userId)]
    /\ UNCHANGED <<dbVars, authVars, videos, allFaces, isLoading, error,
                   searchVars, uploadVars>>

\* both reads have resolved: setVideos, setAllFaces, and finally
\* setIsLoading(false); the render that follows recomputes displayedVideos
LoadDone(i) ==
    /\ i \in 1..Len(loads)
    /\ loads[i].videosRead /\ loads[i].facesRead
    /\ videos' = videosAfterRender(loads[i].videos, selectedFaceIds)
    /\ allFaces' = loads[i].faces
    /\ isLoading' = FALSE
    /\ loads' = RemoveAt(loads, i)
    /\ searches' = searchesAfterSetVideos(searches)
    /\ UNCHANGED <<dbVars, authVars, error, chatHistory, searchActive,
                   selectedFaceIds, uploadVars>>

\* one of the reads rejects: the catch and the finally
LoadFailed(i) ==
    /\ i \in 1..Len(loads)
    /\ ~(loads[i].videosRead /\ loads[i].facesRead)
    /\ error' = MsgLoadFailed
    /\ isLoading' = FALSE
    /\ loads' = RemoveAt(loads, i)
    /\ UNCHANGED <<dbVars, authVars, videos, allFaces, searchVars, uploadVars>>

\* ------------------------------------------------------------ the Auth page
\* a time of the video, in the unit of its duration: the fraction num / den
Time(num, den) == [num |-> num, den |-> den]

\* video.duration: a number of units, or a value that is not finite
Duration(finite, units) == [finite |-> finite, units |-> units]

\* the state of an extractFrames call when its promise has been created: the
\* video element is loading (no metadata yet), frames is empty, nothing is
\* settled.  seeks are the times video.currentTime was set to, timer is the
\* seekTimeout pending, late is an onseeked handler left behind by a seek
\* that timed out
ExInit ==
    [pc |-> "loading", metadata |-> FALSE, duration |-> Duration(TRUE, 0), i |-> 0,
     currentTime |-> Time(0, 1), timer |-> FALSE, late |-> FALSE,
     seeks |-> <<>>, frames |-> <<>>,
     outcome |-> "pending", error |-> NoError, result |-> <<>>]

\* a value of the AI service that may be missing: undefined, or a string
Undefined == [defined |-> FALSE, value |-> <<>>]

StringValue(chars) == [defined |-> TRUE, value |-> chars]

\* the arguments of the function call of the AI service; faces, segments and
\* onScreenText are arrays or something else
Args(description, faces, facesIsArray, segmentsIsArray, transcript, onScreenTextIsArray) ==
    [description |-> description, faces |-> faces, facesIsArray |-> facesIsArray,
     segmentsIsArray |-> segmentsIsArray, transcript |-> transcript,
     onScreenTextIsArray |-> onScreenTextIsArray]

NoArgs == Args(Undefined, <<>>, FALSE, FALSE, Undefined, FALSE)

\* what the call ai.models.generateContent of an analysis has come to:
\* nothing yet ("none"), a rejection ("error"), a response without function
\* call ("nocall"), or the function call name(args) ("call")
AnalysisResponse(kind, name, args) == [kind |-> kind, name |-> name, args |-> args]

NoAnalysisResponse == AnalysisResponse("none", "", NoArgs)

\* the state of an analyzeVideoContent call when it is made: the AI service
\* is being called.  crops holds, per face of the response, what has become
\* of its entry of faceCrops: "dropped" (null), "loading" (cropFace waits for
\* its image), "cropped", "nocontext" and "failed" (cropFace has rejected in
\* onload or by onerror) or "thrown" (the onload handler has thrown)
AnInit ==
    [pc |-> "calling", response |-> NoAnalysisResponse, crops |-> <<>>,
     outcome |-> "pending", error |-> NoError,
     result |-> [description |-> <<>>, faces |-> <<>>, transcript |-> <<>>]]

InitPage ==
    /\ currentUser = NoUser
    /\ authLoading = TRUE
    /\ loginForm = LoginFormInit
    /\ signupForm = SignupFormInit
    /\ videos = <<>>
    /\ allFaces = <<>>
    /\ isLoading = FALSE
    /\ error = NoError
    /\ loads = <<>>
    /\ chatHistory = <<>>
    /\ searchActive = FALSE
    /\ selectedFaceIds = <<>>
    /\ searches = <<>>
    /\ isModalOpen = FALSE
    /\ modal = [videoFile |-> FALSE, error |-> NoError, isAnalyzing |-> FALSE,
                pc |-> "idle", userId |-> 0, frames |-> 0, ex |-> ExInit, an |-> AnInit]
    /\ uploads = <<>>
    /\ unhandled = {} /\ renames = <<>> /\ otherTab = OtherTabInit

\* a first visit: nothing is stored
InitAuth ==
    /\ users = <<>>
    /\ dbVideos = {}
    /\ dbFaces = {}
    /\ session = <<>>
    /\ nextVideoId = 1
    /\ nextFaceId = 1
    /\ InitPage

SubmitSignup(email, password) ==
    /\ trim(email) # <<>> /\ trim(password) # <<>>     \* else the button is disabled
    /\ handleSignup(email, password)

LoadStep == \E i \in 1..MaxLoads : LoadVideosRead(i) \/ LoadFacesRead(i) \/ LoadDone(i) \/ LoadFailed(i)

NextAuth ==
    \/ checkLoggedInUser
    \/ \E e \in EmailInputs, p \in PasswordInputs : handleLogin(e, p)
    \/ LoginComplete
    \/ OpenSignupModal
    \/ CloseSignupModal
    \/ \E e \in EmailInputs, p \in PasswordInputs : SubmitSignup(e, p)
    \/ SignupCheck
    \/ SignupCreate
    \/ logout
    \/ LoadStep

SpecAuth == InitAuth /\ [][NextAuth]_vars

\* a page load: one user is stored, and the session storage of the tab holds
\* nothing, that user's id, or an id the users table no longer holds
InitStartup ==
    /\ users = <<[id |-> 1, email |-> EmailA]>>
    /\ dbVideos = {}
    /\ dbFaces = {}
    /\ session \in {<<>>, <<"1">>, <<"2">>}
    /\ nextVideoId = 1
    /\ nextFaceId = 1
    /\ InitPage

NextStartup ==
    \/ checkLoggedInUser
    \/ checkLoggedInUserFailed
    \/ \E e \in {EmailA, EmailD} : handleLogin(e, PasswordGood)
    \/ LoginComplete
    \/ logout
    \/ LoadStep

\* the lookup of checkLoggedInUser settles
SpecStartup ==
    /\ InitStartup
    /\ [][NextStartup]_vars
    /\ WF_vars(checkLoggedInUser \/ checkLoggedInUserFailed)

\* a page load as in InitStartup, followed by logins, signups and logouts
NextSessionItem ==
    \/ checkLoggedInUser
    \/ checkLoggedInUserFailed
    \/ \E e \in {EmailA, EmailD} : handleLogin(e, PasswordGood)
    \/ LoginComplete
    \/ OpenSignupModal
    \/ \E e \in {EmailUpperA, EmailD} : SubmitSignup(e, PasswordGood)
    \/ SignupCheck
    \/ SignupCreate
    \/ logout
    \/ LoadStep

SpecSessionItem == InitStartup /\ [][NextSessionItem]_vars

\* signups in two tabs of one browser, for emails that differ in case only
NextTabs ==
    \/ checkLoggedInUser
    \/ OpenSignupModal
    \/ \E e \in {EmailA, EmailUpperA} : SubmitSignup(e, PasswordGood)
    \/ SignupCheck
    \/ SignupCreate
    \/ logout
    \/ LoadStep
    \/ \E e \in {EmailA, EmailUpperA} : OtherTabSignup(e)
    \/ OtherTabSignupCheck
    \/ OtherTabSignupCreate

SpecTabs == InitAuth /\ [][NextTabs]_vars

\* the signup form applied to what its two fields may hold: one user is
\* stored, the modal is open and the fields are filled in
SignupEmails ==
    {<<>>, <<" ">>, EmailA, EmailD, EmailNoDot, <<"@", "b", ".", "c">>,
     <<"a", "@", "@", "b", ".", "c">>, <<"a", " ", "@", "b", ".", "c">>,
     <<"a", "@", ".", "c">>, <<"a", "@", "b", ".">>}

SignupPasswords == PasswordInputs \cup {<<>>, <<"p", " ", " ", " ", " ", " ">>}

InitSignupForm ==
    /\ users = <<[id |-> 1, email |-> EmailA]>>
    /\ dbVideos = {} /\ dbFaces = {}
    /\ session = <<>>
    /\ nextVideoId = 1 /\ nextFaceId = 1
    /\ currentUser = NoUser
    /\ authLoading = FALSE
    /\ loginForm = [LoginFormInit EXCEPT !.isSignupModalOpen = TRUE]
    /\ \E e \in SignupEmails, p \in SignupPasswords :
          signupForm = [SignupFormInit EXCEPT !.email = e, !.password = p]
    /\ videos = <<>> /\ allFaces = <<>>
    /\ isLoading = FALSE /\ error = NoError
    /\ loads = <<>>
    /\ chatHistory = <<>> /\ searchActive = FALSE /\ selectedFaceIds = <<>>
    /\ searches = <<>>
    /\ isModalOpen = FALSE
    /\ modal = [videoFile |-> FALSE, error |-> NoError, isAnalyzing |-> FALSE,
                pc |-> "idle", userId |-> 0, frames |-> 0, ex |-> ExInit, an |-> AnInit]
    /\ uploads = <<>> /\ unhandled = {} /\ renames = <<>> /\ otherTab = OtherTabInit

\* the form is submitted with what its fields hold
SubmitSignupForm == handleSignup(signupForm.email, signupForm.password)

NextSignupForm ==
    \/ SubmitSignupForm
    \/ SignupCheck
    \/ SignupCreate
    \/ LoadStep

SpecSignupForm == InitSignupForm /\ [][NextSignupForm]_vars

\* ------------------------------------------------------------ face filter
newSelectedFaceIdsAppended(faceIds, faceId) == Append(faceIds, faceId)

\* the new selection handleToggleFaceSelection computes
newSelectedFaceIdsOf(faceIds, faceId) ==
    IF includes(faceIds, faceId)
    THEN SelectSeq(faceIds, LAMBDA id : id # faceId)
    ELSE Append(faceIds, faceId)

\* App.handleToggleFaceSelection(faceId), called by a click on a face card
handleToggleFaceSelection(faceId) ==
    /\ MainShown
    /\ ~isModalOpen
    /\ \E k \in 1..Len(allFaces) : allFaces[k].id = faceId
    /\ LET newSelectedFaceIds == newSelectedFaceIdsOf(selectedFaceIds, faceId)
       IN  /\ selectedFaceIds' = newSelectedFaceIds
           /\ videos' = videosAfterRender(videos, newSelectedFaceIds)
           /\ searches' = searchesAfterRender(searches, newSelectedFaceIds)
    /\ searchActive' = FALSE
    /\ chatHistory' = <<>>
    /\ UNCHANGED <<dbVars, authVars, allFaces, isLoading, error, loads, uploadVars>>

handleClearSearchKeepsFaces ==
    /\ MainShown
    /\ ~isModalOpen
    /\ searchActive \/ Len(selectedFaceIds) > 0
    /\ searchActive' = FALSE
    /\ chatHistory' = <<>>
    /\ searches' = searchesAfterRender(searches, selectedFaceIds)
    /\ UNCHANGED <<dbVars, authVars, libVars, selectedFaceIds, uploadVars>>

\* App.handleClearSearch, behind the button ChatSearch shows while
\* searchActive || selectedFaceIds.length > 0
handleClearSearch ==
    /\ MainShown
    /\ ~isModalOpen
    /\ searchActive \/ Len(selectedFaceIds) > 0
    /\ searchActive' = FALSE
    /\ chatHistory' = <<>>
    /\ selectedFaceIds' = <<>>
    /\ videos' = videosAfterRender(videos, <<>>)
    /\ searches' = searchesAfterRender(searches, <<>>)
    /\ UNCHANGED <<dbVars, authVars, allFaces, isLoading, error, loads, uploadVars>>

\* ------------------------------------------------------------------ search
MsgSearchFailed == "Failed to search videos. Please try again."
MsgSorry == "Sorry, I encountered an error: "
AiReplyText == "Of course. Here is what I found for you."
FallbackNone == "I couldn't find any videos matching that memory."

FallbackFound(n) == "I found " \o ToString(n) \o " video(s) that match your memory."

Queries == {"birthday"}

UserMessage(query) ==
    [sender |-> "user", text |-> query, hasVideos |-> FALSE, videos |-> <<>>]

AiMessage(text, matchingVideos) ==
    [sender |-> "ai", text |-> text, hasVideos |-> TRUE, videos |-> matchingVideos]

AiErrorMessage(errorMessage) ==
    [sender |-> "ai", text |-> MsgSorry \o errorMessage, hasVideos |-> FALSE,
     videos |-> <<>>]

\* the videos handleSearch hands to findMatchingVideos
videosToSearchOf(arr, faceIds) ==
    IF Len(faceIds) > 0 THEN filterByFaces(arr, faceIds) ELSE arr

\* videos.filter(video => matchingIds.includes(video.id))
matchingVideosOf(arr, matchingIds) == SelectSeq(arr, LAMBDA v : v.id \in matchingIds)

\* the ids an answer of the AI service may name: those of the videos stored so
\* far, whoever owns them (another string matches no video)
AnswerIds == SUBSET (1..(nextVideoId - 1))

\* what the call ai.models.generateContent of a search has come to: nothing
\* yet, a rejection, a response without text, or a response with a text
NoResponse == [kind |-> "none", text |-> <<>>]
ResponseError == [kind |-> "error", text |-> <<>>]
ResponseNoText == [kind |-> "notext", text |-> <<>>]

TextResponse(text) == [kind |-> "text", text |-> text]

\* room for the two messages of one more search
ChatHasRoom == Len(chatHistory) + Len(searches) + 2 <= MaxChat

\* ChatSearch.handleSearch and App.handleSearch up to the await of
\* findMatchingVideos.  The fields alone and before are history: whether the
\* call started with no other search in flight and nothing has touched the
\* conversation since, and the conversation it started from
handleSearch(query) ==
    /\ MainShown
    /\ ~isModalOpen
    /\ ~isLoading
    /\ Len(searches) < MaxSearches
    /\ ChatHasRoom
    /\ isLoading' = TRUE
    /\ searchActive' = TRUE
    /\ error' = NoError
    /\ chatHistory' = Append(chatHistory, UserMessage(query))
    /\ LET videosToSearch == videosToSearchOf(videos, selectedFaceIds)
       IN  searches' = Append([i \in 1..Len(searches) |->
                                 [searches[i] EXCEPT !.alone = FALSE, !.before = <<>>]],
                [pc |-> "matching", query |-> query,
                 videos |-> videos, aliased |-> TRUE,
                 selectedFaceIds |-> selectedFaceIds,
                 videosToSearch |-> videosToSearch,
                 aiCalls |-> IF Len(videosToSearch) = 0 THEN 0 ELSE 1,
                 response |-> NoResponse,
                 matchingVideos |-> <<>>,
                 alone |-> searches = <<>>,
                 before |-> IF searches = <<>> THEN chatHistory ELSE <<>>])
    /\ UNCHANGED <<dbVars, authVars, videos, allFaces, loads, selectedFaceIds,
                   uploadVars>>

\* findMatchingVideos resolves with matchingIds (without a call of the AI
\* service when it was given no videos); generateChatResponse is called
FindMatchingResolved(i, matchingIds) ==
    /\ i \in 1..Len(searches)
    /\ searches[i].pc = "matching"
    /\ Len(searches[i].videosToSearch) = 0 => matchingIds = {}
    /\ searches' = [searches EXCEPT
                      ![i].pc = "responding",
                      ![i].matchingVideos = matchingVideosOf(searches[i].videos, matchingIds)]
    /\ UNCHANGED <<dbVars, authVars, libVars, chatHistory, searchActive,
                   selectedFaceIds, uploadVars>>

\* the catch and the finally of handleSearch
SearchCatchRetries(i, errorMessage) ==
    /\ searches' = [searches EXCEPT ![i].aiCalls = @ + 1]
    /\ UNCHANGED <<error, chatHistory, isLoading>>

SearchCatchSilent(i, errorMessage) ==
    /\ error' = errorMessage
    /\ chatHistory' = chatHistory
    /\ isLoading' = FALSE
    /\ searches' = RemoveAt(searches, i)

SearchCatch(i, errorMessage) ==
    /\ error' = errorMessage
    /\ chatHistory' = Append(chatHistory, AiErrorMessage(errorMessage))
    /\ isLoading' = FALSE
    /\ searches' = RemoveAt(searches, i)

\* findMatchingVideos rejects: the call of the AI service failed or its
\* answer was no JSON
FindMatchingRejected(i) ==
    /\ i \in 1..Len(searches)
    /\ searches[i].pc = "matching"
    /\ Len(searches[i].videosToSearch) > 0
    /\ SearchCatch(i, MsgSearchFailed)
    /\ UNCHANGED <<dbVars, authVars, videos, allFaces, loads, searchActive,
                   selectedFaceIds, uploadVars>>

\* the texts a response may carry
TextNotJson == <<"o", "k">>
TextUnclosed == <<"[", "\"", "1", "\"">>
TextObject == <<"{", "}">>
TextNull == <<"n", "u", "l", "l">>
TextNumber == <<"1">>
TextNumbers == <<"[", "1", "]">>
TextMixed == <<"[", "\"", "1", "\"", ",", "2", "]">>
TextNone == <<"[", "]">>
TextOne == <<"[", "\"", "1", "\"", "]">>
TextTwo == <<" ", "[", " ", "\"", "2", "\"", "]", " ">>
TextBoth == <<"[", "\"", "1", "\"", ",", "\"", "2", "\"", "]">>
TextUnknown == <<"[", "\"", "9", "\"", "]">>

ResponseTexts ==
    {TextNotJson, TextUnclosed, TextObject, TextNull, TextNumber, TextNumbers,
     TextMixed, TextNone, TextOne, TextTwo, TextBoth, TextUnknown}

Responses == {ResponseError, ResponseNoText} \cup {TextResponse(t) : t \in ResponseTexts}

\* JSON values: v holds the characters of a string or a number and the items
\* of an array
JsonSyntaxError == [t |-> "SyntaxError", v |-> <<>>]
JsonNull == [t |-> "null", v |-> <<>>]
JsonObject == [t |-> "object", v |-> <<>>]

JsonString(chars) == [t |-> "string", v |-> chars]

JsonNumber(chars) == [t |-> "number", v |-> chars]

JsonArray(items) == [t |-> "array", v |-> items]

DigitChars == <<"0", "1", "2", "3", "4", "5", "6", "7", "8", "9">>

\* a JSON text that is no array: a string without escapes, an unsigned
\* integer, null or the empty object
parseScalar(s) ==
    IF /\ Len(s) >= 2 /\ s[1] = "\"" /\ s[Len(s)] = "\""
       /\ \A k \in 2..(Len(s) - 1) : s[k] \notin {"\"", "\\"}
    THEN JsonString(SubSeq(s, 2, Len(s) - 1))
    ELSE IF /\ Len(s) >= 1 /\ \A k \in 1..Len(s) : s[k] \in Range(DigitChars)
            /\ (Len(s) > 1 => s[1] # "0")
    THEN JsonNumber(s)
    ELSE IF s = TextNull THEN JsonNull
    ELSE IF s = TextObject THEN JsonObject
    ELSE JsonSyntaxError

\* the pieces of s between the occurrences of sep
RECURSIVE split(_, _)
split(s, sep) ==
    IF \E k \in 1..Len(s) : s[k] = sep
    THEN LET k == CHOOSE k \in 1..Len(s) :
                      s[k] = sep /\ \A j \in 1..(k - 1) : s[j] # sep
         IN  <<SubSeq(s, 1, k - 1)>> \o split(SubSeq(s, k + 1, Len(s)), sep)
    ELSE <<s>>

\* JSON.parse for the texts of one level: a scalar or an array of scalars,
\* with blanks around the tokens; every other text is a SyntaxError
JSONparse(s) ==
    LET t == trim(s)
    IN  IF Len(t) >= 2 /\ t[1] = "[" /\ t[Len(t)] = "]"
        THEN LET inner == trim(SubSeq(t, 2, Len(t) - 1))
                 parts == split(inner, ",")
                 items == [k \in 1..Len(parts) |-> parseScalar(trim(parts[k]))]
             IN  IF Len(inner) = 0 THEN JsonArray(<<>>)
                 ELSE IF \E k \in 1..Len(items) : items[k].t = "SyntaxError"
                 THEN JsonSyntaxError
                 ELSE JsonArray(items)
        ELSE parseScalar(t)

\* the promise of findMatchingVideos: fulfilled with value or rejected with
\* error
Fulfilled(value) == [ok |-> TRUE, value |-> value, error |-> NoError]

Rejected(errorMessage) == [ok |-> FALSE, value |-> <<>>, error |-> errorMessage]

findMatchingVideosLenient(videosArg, response) ==
    IF Len(videosArg) = 0 \/ response.kind # "text" THEN Fulfilled(<<>>)
    ELSE LET matchingIds == JSONparse(trim(response.text))
         IN  IF /\ matchingIds.t = "array"
                /\ \A k \in 1..Len(matchingIds.v) : matchingIds.v[k].t = "string"
             THEN Fulfilled([k \in 1..Len(matchingIds.v) |-> matchingIds.v[k].v])
             ELSE Fulfilled(<<>>)

\* findMatchingVideos(query, videosArg) when the AI service answers with
\* response (which is not looked at when videosArg is empty)
findMatchingVideos(videosArg, response) ==
    IF Len(videosArg) = 0 THEN Fulfilled(<<>>)
    ELSE IF response.kind # "text" THEN Rejected(MsgSearchFailed)
    ELSE LET matchingIds == JSONparse(trim(response.text))
         IN  IF matchingIds.t = "SyntaxError" THEN Rejected(MsgSearchFailed)
             ELSE IF /\ matchingIds.t = "array"
                     /\ \A k \in 1..Len(matchingIds.v) : matchingIds.v[k].t = "string"
             THEN Fulfilled([k \in 1..Len(matchingIds.v) |-> matchingIds.v[k].v])
             ELSE Fulfilled(<<>>)

\* the key of the stored video n as the string the AI service is shown
idKey(n) == <<DigitChars[n + 1]>>

\* the stored videos whose id is among the strings of matchingIds
idsAmong(matchingIds) ==
    {n \in 1..(nextVideoId - 1) : \E k \in 1..Len(matchingIds) : matchingIds[k] = idKey(n)}

\* the call ai.models.generateContent of findMatchingVideos settles
AiResponds(i, response) ==
    /\ i \in 1..Len(searches)
    /\ searches[i].pc = "matching"
    /\ searches[i].aiCalls > 0
    /\ searches[i].response = NoResponse
    /\ searches' = [searches EXCEPT ![i].response = response]
    /\ UNCHANGED <<dbVars, authVars, libVars, chatHistory, searchActive,
                   selectedFaceIds, uploadVars>>

\* findMatchingVideos settles and handleSearch goes on
FindMatchingSettled(i) ==
    /\ i \in 1..Len(searches)
    /\ searches[i].pc = "matching"
    /\ searches[i].aiCalls = 0 \/ searches[i].response # NoResponse
    /\ LET result == findMatchingVideos(searches[i].videosToSearch, searches[i].response)
       IN  IF result.ok
           THEN FindMatchingResolved(i, idsAmong(result.value))
           ELSE FindMatchingRejected(i)

generateChatResponseOneFallback(aiFails, foundVideosCount) ==
    IF ~aiFails THEN AiReplyText ELSE FallbackNone

\* generateChatResponse: the text of the AI service, or the fallback text
\* when the call fails
generateChatResponse(aiFails, foundVideosCount) ==
    IF ~aiFails THEN AiReplyText
    ELSE IF foundVideosCount > 0 THEN FallbackFound(foundVideosCount)
    ELSE FallbackNone

\* generateChatResponse resolves: the assistant message, then the finally
ChatResponseResolved(i, aiFails) ==
    /\ i \in 1..Len(searches)
    /\ searches[i].pc = "responding"
    /\ chatHistory' = Append(chatHistory,
            AiMessage(generateChatResponse(aiFails, Len(searches[i].matchingVideos)),
                      searches[i].matchingVideos))
    /\ isLoading' = FALSE
    /\ searches' = RemoveAt(searches, i)
    /\ UNCHANGED <<dbVars, authVars, videos, allFaces, error, loads, searchActive,
                   selectedFaceIds, uploadVars>>

\* ------------------------------------------------------------------ upload
MsgInvalidFile == "Please select a valid video file."
MsgNoFile == "Please select a video file."
MsgAnalysisFailed == "Analysis failed: "
MsgNoFrames == "Could not extract frames from the video."
MsgNoDuration == "Video has no duration or is invalid."
MsgVideoError == "Error loading video for frame extraction. The file might be corrupt or in an unsupported format."
MsgAnalyze == "Failed to analyze video content with face detection."
MsgWriteFailed == "the database write failed"

ExtractErrors == {MsgNoDuration, MsgVideoError}

ModalInit ==
    [videoFile |-> FALSE, error |-> NoError, isAnalyzing |-> FALSE,
     pc |-> "idle", userId |-> 0, frames |-> 0, ex |-> ExInit, an |-> AnInit]

\* the upload button of the header, or a click on the empty library
OpenUploadModal ==
    /\ MainShown
    /\ ~isModalOpen
    /\ isModalOpen' = TRUE
    /\ modal' = ModalInit
    /\ UNCHANGED <<dbVars, authVars, libVars, searchVars, uploads, unhandled, renames, otherTab,
                   nextVideoId, nextFaceId>>

\* onClose behind the two buttons that isAnalyzing disables
CloseUploadModal ==
    /\ isModalOpen
    /\ ~modal.isAnalyzing
    /\ isModalOpen' = FALSE
    /\ modal' = ModalInit
    /\ UNCHANGED <<dbVars, authVars, libVars, searchVars, uploads, unhandled, renames, otherTab,
                   nextVideoId, nextFaceId>>

\* handleFileChange / handleDrop with a video file or with another file
handleFileChange(isVideo) ==
    /\ isModalOpen
    /\ ~modal.isAnalyzing
    /\ modal' = IF isVideo
                THEN [modal EXCEPT !.videoFile = TRUE, !.error = NoError]
                ELSE [modal EXCEPT !.error = MsgInvalidFile]
    /\ UNCHANGED <<dbVars, authVars, libVars, searchVars, isModalOpen, uploads,
                   unhandled, renames, otherTab, nextVideoId, nextFaceId>>

\* handleSubmit up to the await of extractFrames (ex is the call's promise
\* and video element, just created); onUpload is the handleUpload of the
\* render the modal was given, with that render's currentUser
handleSubmit ==
    /\ isModalOpen
    /\ ~modal.isAnalyzing
    /\ modal' = IF ~modal.videoFile
                THEN [modal EXCEPT !.error = MsgNoFile]
                ELSE [modal EXCEPT !.isAnalyzing = TRUE, !.error = NoError,
                                   !.pc = "extract", !.userId = currentUser.id,
                                   !.ex = ExInit, !.an = AnInit]
    /\ UNCHANGED <<dbVars, authVars, libVars, searchVars, isModalOpen, uploads,
                   unhandled, renames, otherTab, nextVideoId, nextFaceId>>

\* the catch and the finally of handleSubmit
SubmitCatchStaysBusy(errorMessage) ==
    modal' = [modal EXCEPT !.error = MsgAnalysisFailed \o errorMessage,
                           !.pc = "idle", !.frames = 0]

SubmitCatch(errorMessage) ==
    modal' = [modal EXCEPT !.error = MsgAnalysisFailed \o errorMessage,
                           !.isAnalyzing = FALSE, !.pc = "idle", !.frames = 0]

\* extractFrames(videoFile, 12) rejects
ExtractRejected(errorMessage) ==
    /\ modal.pc = "extract"
    /\ SubmitCatch(errorMessage)
    /\ UNCHANGED <<dbVars, authVars, libVars, searchVars, isModalOpen, uploads,
                   unhandled, renames, otherTab, nextVideoId, nextFaceId>>

\* extractFrames resolves with frameCount frames (the field frames is the
\* length of the local array); none is an error, else analyzeVideoContent is
\* called
ExtractResolved(frameCount) ==
    /\ modal.pc = "extract"
    /\ IF frameCount = 0
       THEN SubmitCatch(MsgNoFrames)
       ELSE modal' = [modal EXCEPT !.pc = "analyze", !.frames = frameCount]
    /\ UNCHANGED <<dbVars, authVars, libVars, searchVars, isModalOpen, uploads,
                   unhandled, renames, otherTab, nextVideoId, nextFaceId>>

\* analyzeVideoContent rejects
AnalyzeRejected ==
    /\ modal.pc = "analyze"
    /\ SubmitCatch(MsgAnalyze)
    /\ UNCHANGED <<dbVars, authVars, libVars, searchVars, isModalOpen, uploads,
                   unhandled, renames, otherTab, nextVideoId, nextFaceId>>

\* ------------------------------------------------------------ extractFrames
\* the durations a video file may report: none, one unit, five units, or a
\* value that is not finite (NaN, Infinity)
Durations == {Duration(TRUE, 0), Duration(TRUE, 1), Duration(TRUE, 5), Duration(FALSE, 0)}

isFinite(duration) == duration.finite

MsgSeekTimedOut(time) ==
    "Seek timed out at " \o ToString(time.num) \o "/" \o ToString(time.den) \o "s"

\* resolve(..) or reject(..) of the promise extractFrames returns: the first
\* call settles it, a later call does nothing
SettleAgain(ex, outcome, errorMessage, result) ==
    [ex EXCEPT !.outcome = outcome, !.error = errorMessage, !.result = result]

Settle(ex, outcome, errorMessage, result) ==
    IF ex.outcome = "pending"
    THEN [ex EXCEPT !.outcome = outcome, !.error = errorMessage, !.result = result]
    ELSE ex

\* const interval = duration / (frameCount + 1), and i * interval
intervalByCount(duration) == Time(duration.units, FrameCount)

interval(duration) == Time(duration.units, FrameCount + 1)

TimesInterval(i, t) == Time(i * t.num, t.den)

\* captureFrameAt(time) up to its return: the timeout is armed, onseeked is
\* set and the seek is issued
captureFrameAt(ex, time) ==
    [ex EXCEPT !.pc = "seeking", !.timer = TRUE, !.currentTime = time,
               !.seeks = Append(@, time)]

\* an extractFrames call exists in the open modal
ExLive == isModalOpen /\ (modal.pc = "extract" \/ modal.ex # ExInit)

\* video.onloadedmetadata: a duration of 0 or not finite rejects, else the
\* loop starts with the first seek
ExLoadedMetadata(duration) ==
    /\ ExLive
    /\ modal.ex.pc = "loading"
    /\ LET ex == [modal.ex EXCEPT !.metadata = TRUE, !.duration = duration]
       IN  modal' = [modal EXCEPT !.ex =
              IF duration.units = 0 \/ ~isFinite(duration)
              THEN Settle([ex EXCEPT !.pc = "stopped"], "rejected", MsgNoDuration, <<>>)
              ELSE captureFrameAt([ex EXCEPT !.i = 1],
                                  TimesInterval(1, interval(duration)))]
    /\ UNCHANGED <<dbVars, authVars, libVars, searchVars, isModalOpen, uploads,
                   unhandled, renames, otherTab, nextVideoId, nextFaceId>>

\* video.onseeked in time: the timeout is cleared, the frame at currentTime is
\* pushed; the loop goes on with the next seek or, after the last frame,
\* resolves with the frames
ExSeeked ==
    /\ ExLive
    /\ modal.ex.pc = "seeking"
    /\ modal.ex.timer
    /\ LET ex == [modal.ex EXCEPT !.timer = FALSE,
                                  !.frames = Append(@, modal.ex.currentTime)]
       IN  modal' = [modal EXCEPT !.ex =
              IF ex.i < FrameCount
              THEN captureFrameAt([ex EXCEPT !.i = @ + 1],
                                  TimesInterval(ex.i + 1, interval(ex.duration)))
              ELSE Settle([ex EXCEPT !.pc = "stopped"], "resolved", NoError, ex.frames)]
    /\ UNCHANGED <<dbVars, authVars, libVars, searchVars, isModalOpen, uploads,
                   unhandled, renames, otherTab, nextVideoId, nextFaceId>>

\* the 2000 ms timeout fires first: captureFrameAt rejects, the loop ends in
\* the catch, which rejects with the same error; onseeked stays set
ExSeekTimeout ==
    /\ ExLive
    /\ modal.ex.pc = "seeking"
    /\ modal.ex.timer
    /\ modal' = [modal EXCEPT !.ex =
          Settle([modal.ex EXCEPT !.timer = FALSE, !.late = TRUE, !.pc = "stopped"],
                 "rejected", MsgSeekTimedOut(modal.ex.currentTime), <<>>)]
    /\ UNCHANGED <<dbVars, authVars, libVars, searchVars, isModalOpen, uploads,
                   unhandled, renames, otherTab, nextVideoId, nextFaceId>>

\* the seeked event of a seek that timed out arrives after all: the handler
\* left behind pushes a frame nobody reads
ExLateSeeked ==
    /\ ExLive
    /\ modal.ex.late
    /\ modal' = [modal EXCEPT !.ex.late = FALSE,
                              !.ex.frames = Append(@, modal.ex.currentTime)]
    /\ UNCHANGED <<dbVars, authVars, libVars, searchVars, isModalOpen, uploads,
                   unhandled, renames, otherTab, nextVideoId, nextFaceId>>

\* video.onerror, while loading or later: reject; a loop that is running
\* goes on (a second error event would change nothing)
ExVideoError ==
    /\ ExLive
    /\ modal.ex.pc \in {"loading", "seeking"}
    /\ modal.ex.outcome = "pending" \/ modal.ex.error # MsgVideoError
    /\ modal' = [modal EXCEPT !.ex =
          Settle(IF modal.ex.pc = "loading" THEN [modal.ex EXCEPT !.pc = "stopped"]
                 ELSE modal.ex,
                 "rejected", MsgVideoError, <<>>)]
    /\ UNCHANGED <<dbVars, authVars, libVars, searchVars, isModalOpen, uploads,
                   unhandled, renames, otherTab, nextVideoId, nextFaceId>>

\* the await of extractFrames in handleSubmit resumes with the outcome
ExtractSettled ==
    /\ modal.ex.outcome # "pending"
    /\ IF modal.ex.outcome = "resolved"
       THEN ExtractResolved(Len(modal.ex.result))
       ELSE ExtractRejected(modal.ex.error)

\* the Face records handleUpload builds, one per face of the analysis result
newFacesOf(userId, faceCount) ==
    [k \in 1..faceCount |-> [id |-> nextFaceId + k - 1, userId |-> userId, name |-> Null]]

newVideoOf(userId, newFaces) ==
    [id |-> nextVideoId, userId |-> userId,
     faceIds |-> [k \in 1..Len(newFaces) |-> newFaces[k].id]]

\* handleUpload up to its first await: db.addFaces when the analysis found
\* faces, else db.addVideo.  The field faceCount is the length of
\* analysisResult.faces, the parameter the call keeps
handleUploadUnguarded(userId, faceCount) ==
    LET newFaces == newFacesOf(userId, faceCount)
    IN  /\ nextFaceId' = nextFaceId + faceCount
        /\ uploads' = Append(uploads,
               [pc |-> "addVideo", userId |-> userId, faceCount |-> faceCount,
                newFaces |-> newFaces, newVideo |-> newVideoOf(userId, newFaces)])
        /\ nextVideoId' = nextVideoId + 1

handleUpload(userId, faceCount) ==
    IF userId = 0
    THEN UNCHANGED <<uploads, nextVideoId, nextFaceId>>
    ELSE LET newFaces == newFacesOf(userId, faceCount)
         IN  /\ nextFaceId' = nextFaceId + faceCount
             /\ IF faceCount > 0
                THEN /\ uploads' = Append(uploads,
                            [pc |-> "addFaces", userId |-> userId,
                             faceCount |-> faceCount, newFaces |-> newFaces,
                             newVideo |-> newVideoOf(userId, <<>>)])
                     /\ UNCHANGED nextVideoId
                ELSE /\ uploads' = Append(uploads,
                            [pc |-> "addVideo", userId |-> userId,
                             faceCount |-> faceCount, newFaces |-> newFaces,
                             newVideo |-> newVideoOf(userId, newFaces)])
                     /\ nextVideoId' = nextVideoId + 1

\* analyzeVideoContent resolves with faceCount faces: onUpload, onClose, and
\* the finally
AnalyzeResolved(faceCount) ==
    /\ modal.pc = "analyze"
    /\ nextVideoId + Len(SelectSeq(uploads, LAMBDA u : u.pc = "addFaces")) <= MaxVideos
    /\ nextFaceId + faceCount - 1 <= MaxFaceIds
    /\ handleUpload(modal.userId, faceCount)
    /\ isModalOpen' = FALSE
    /\ modal' = ModalInit
    /\ UNCHANGED <<dbVars, authVars, libVars, searchVars, unhandled, renames, otherTab>>

\* ------------------------------------------------------ analyzeVideoContent
\* a face of the function call: the frame it names, whether it has a box, and
\* its description
AiFace(frameIndex, hasBox, description) ==
    [frameIndex |-> frameIndex, hasBox |-> hasBox, description |-> description]

\* the frame before the first, the first, the last and the one after the last
FrameIndexes == {-1, 0, FrameCount - 1, FrameCount}

AiFaceLists ==
    {<<>>}
    \cup {<<AiFace(f, b, "first")>> : f \in FrameIndexes, b \in BOOLEAN}
    \cup {<<AiFace(f, TRUE, "first"), AiFace(g, b, "second")>> :
              f \in FrameIndexes, g \in FrameIndexes, b \in BOOLEAN}

Summary == StringValue(<<"s">>)
Speech == StringValue(<<"t">>)

\* the responses of the AI service: the failures, the function calls whose
\* arguments have the wrong shape, and the function calls with faces
AnalysisResponses ==
    {AnalysisResponse("error", "", NoArgs),
     AnalysisResponse("nocall", "", NoArgs),
     AnalysisResponse("call", "other", Args(Summary, <<>>, TRUE, TRUE, Speech, TRUE)),
     AnalysisResponse("call", "extractVideoDetails",
                      Args(Undefined, <<>>, TRUE, TRUE, Speech, TRUE)),
     AnalysisResponse("call", "extractVideoDetails",
                      Args(StringValue(<<>>), <<>>, TRUE, TRUE, Speech, TRUE)),
     AnalysisResponse("call", "extractVideoDetails",
                      Args(Summary, <<>>, FALSE, TRUE, Speech, TRUE)),
     AnalysisResponse("call", "extractVideoDetails",
                      Args(Summary, <<>>, TRUE, FALSE, Speech, TRUE)),
     AnalysisResponse("call", "extractVideoDetails",
                      Args(Summary, <<>>, TRUE, TRUE, Undefined, TRUE)),
     AnalysisResponse("call", "extractVideoDetails",
                      Args(Summary, <<>>, TRUE, TRUE, StringValue(<<>>), TRUE)),
     AnalysisResponse("call", "extractVideoDetails",
                      Args(Summary, <<>>, TRUE, TRUE, Speech, FALSE))}
    \cup {AnalysisResponse("call", "extractVideoDetails",
                           Args(Summary, faces, TRUE, TRUE, Speech, TRUE)) :
              faces \in AiFaceLists}

\* !x for a string that may be missing
Falsy(x) == ~x.defined \/ Len(x.value) = 0

\* the two throws of the try block before the faces are looked at
responseRefused(response) ==
    \/ response.kind # "call"
    \/ response.name # "extractVideoDetails"
    \/ Falsy(response.args.description)
    \/ ~response.args.facesIsArray
    \/ ~response.args.segmentsIsArray
    \/ ~response.args.transcript.defined
    \/ ~response.args.onScreenTextIsArray

hasFrameOneBased(frameCount, frameIndex) == frameIndex \in 1..frameCount

\* base64Frames[face.frameIndex] is a frame
hasFrame(frameCount, frameIndex) == frameIndex \in 0..(frameCount - 1)

\* faceCrops.filter(Boolean) with the fields the result is built from: image
\* is the frame the crop was cut from
faceCropsOf(faces, crops) ==
    LET kept == SelectSeq([k \in 1..Len(faces) |-> k], LAMBDA k : crops[k] # "dropped")
    IN  [j \in 1..Len(kept) |->
            [description |-> faces[kept[j]].description,
             image |-> faces[kept[j]].frameIndex]]

\* the catch of analyzeVideoContent: whatever was thrown, the promise rejects
\* with the one error
AnRejected(an) ==
    [an EXCEPT !.pc = "stopped", !.outcome = "rejected", !.error = MsgAnalyze]

\* Promise.all over the crops and what follows it: the first crop that
\* rejects ends the call in the catch, and when every crop has a value the
\* call returns the result
AnPromiseAll(an) ==
    IF an.outcome # "pending" THEN an
    ELSE IF \E k \in 1..Len(an.crops) : an.crops[k] \in {"nocontext", "failed"}
    THEN AnRejected(an)
    ELSE IF \A k \in 1..Len(an.crops) : an.crops[k] \in {"dropped", "cropped"}
    THEN [an EXCEPT !.pc = "stopped", !.outcome = "fulfilled",
                    !.result = [description |-> an.response.args.description.value,
                                faces |-> faceCropsOf(an.response.args.faces, an.crops),
                                transcript |-> an.response.args.transcript.value]]
    ELSE an

\* the call of the AI service settles: the checks of the response, then
\* faces.map, which starts a cropFace for every face that names a frame
AnResponds(response) ==
    /\ isModalOpen
    /\ modal.pc = "analyze"
    /\ modal.an.pc = "calling"
    /\ LET an == [modal.an EXCEPT !.response = response]
           faces == response.args.faces
       IN  modal' = [modal EXCEPT !.an =
              IF responseRefused(response) THEN AnRejected(an)
              ELSE AnPromiseAll([an EXCEPT
                      !.pc = "cropping",
                      !.crops = [k \in 1..Len(faces) |->
                                    IF hasFrame(modal.frames, faces[k].frameIndex)
                                    THEN "loading" ELSE "dropped"]])]
    /\ UNCHANGED <<dbVars, authVars, libVars, searchVars, isModalOpen, uploads,
                   unhandled, renames, otherTab, nextVideoId, nextFaceId>>

\* img.onload of the cropFace of face k: without a canvas context it
\* rejects; reading the box of a face that has none throws inside the
\* handler, which leaves the promise of cropFace pending; else it resolves
AnCropLoaded(k, hasContext) ==
    /\ isModalOpen
    /\ k \in 1..Len(modal.an.crops)
    /\ modal.an.crops[k] = "loading"
    /\ modal' = [modal EXCEPT !.an =
          AnPromiseAll([modal.an EXCEPT !.crops[k] =
              IF ~hasContext THEN "nocontext"
              ELSE IF ~modal.an.response.args.faces[k].hasBox THEN "thrown"
              ELSE "cropped"])]
    /\ UNCHANGED <<dbVars, authVars, libVars, searchVars, isModalOpen, uploads,
                   unhandled, renames, otherTab, nextVideoId, nextFaceId>>

\* img.onerror of the cropFace of face k: it rejects
AnCropError(k) ==
    /\ isModalOpen
    /\ k \in 1..Len(modal.an.crops)
    /\ modal.an.crops[k] = "loading"
    /\ modal' = [modal EXCEPT !.an = AnPromiseAll([modal.an EXCEPT !.crops[k] = "failed"])]
    /\ UNCHANGED <<dbVars, authVars, libVars, searchVars, isModalOpen, uploads,
                   unhandled, renames, otherTab, nextVideoId, nextFaceId>>

\* the await of analyzeVideoContent in handleSubmit resumes with the outcome
AnalysisSettled ==
    /\ modal.an.outcome # "pending"
    /\ IF modal.an.outcome = "fulfilled"
       THEN AnalyzeResolved(Len(modal.an.result.faces))
       ELSE AnalyzeRejected

\* the faces some handleUpload call is adding
dbFacesInFlight == UNION {Range(uploads[i].newFaces) : i \in 1..Len(uploads)}

\* a rejection inside handleUpload: nothing awaits the promise handleUpload
\* returned and nothing catches
UploadRejected(i, reason) ==
    /\ unhandled' = unhandled \cup {reason}
    /\ uploads' = RemoveAt(uploads, i)

\* db.addFaces resolves: the faces are stored, the Video record is built and
\* db.addVideo is called
AddFacesResolved(i) ==
    /\ i \in 1..Len(uploads)
    /\ uploads[i].pc = "addFaces"
    /\ dbFaces' = dbFaces \cup Range(uploads[i].newFaces)
    /\ uploads' = [uploads EXCEPT ![i].pc = "addVideo",
                      ![i].newVideo = newVideoOf(uploads[i].userId, uploads[i].newFaces)]
    /\ nextVideoId' = nextVideoId + 1
    /\ UNCHANGED <<users, dbVideos, authVars, libVars, searchVars, isModalOpen,
                   modal, unhandled, renames, otherTab, nextFaceId>>

\* db.addFaces rejects; of the faces of the bulk add, stored are those the
\* store kept
AddFacesRejectedGoesOn(i, stored) ==
    /\ i \in 1..Len(uploads)
    /\ uploads[i].pc = "addFaces"
    /\ stored \subseteq Range(uploads[i].newFaces) /\ stored # Range(uploads[i].newFaces)
    /\ dbFaces' = dbFaces \cup stored
    /\ uploads' = [uploads EXCEPT ![i].pc = "addVideo",
                      ![i].newVideo = newVideoOf(uploads[i].userId, uploads[i].newFaces)]
    /\ nextVideoId' = nextVideoId + 1
    /\ UNCHANGED <<users, dbVideos, authVars, libVars, searchVars, isModalOpen,
                   modal, unhandled, renames, otherTab, nextFaceId>>

AddFacesRejected(i, stored) ==
    /\ i \in 1..Len(uploads)
    /\ uploads[i].pc = "addFaces"
    /\ stored \subseteq Range(uploads[i].newFaces) /\ stored # Range(uploads[i].newFaces)
    /\ dbFaces' = dbFaces \cup stored
    /\ UploadRejected(i, MsgWriteFailed)
    /\ UNCHANGED <<users, dbVideos, authVars, libVars, searchVars, isModalOpen,
                   modal, renames, otherTab, nextVideoId, nextFaceId>>

\* db.addVideo resolves: the video is stored and loadUserData is called, the
\* one of the render handleUpload came from
AddVideoResolved(i) ==
    /\ i \in 1..Len(uploads)
    /\ uploads[i].pc = "addVideo"
    /\ CanLoad
    /\ dbVideos' = dbVideos \cup {uploads[i].newVideo}
    /\ loadUserData([id |-> uploads[i].userId])
    /\ uploads' = RemoveAt(uploads, i)
    /\ UNCHANGED <<users, dbFaces, authVars, videos, allFaces, error, searchVars,
                   isModalOpen, modal, unhandled, renames, otherTab, nextVideoId, nextFaceId>>

\* db.addVideo rejects
AddVideoRejected(i) ==
    /\ i \in 1..Len(uploads)
    /\ uploads[i].pc = "addVideo"
    /\ UploadRejected(i, MsgWriteFailed)
    /\ UNCHANGED <<dbVars, authVars, libVars, searchVars, isModalOpen, modal,
                   renames, otherTab, nextVideoId, nextFaceId>>

\* ---------------------------------------------------------------- the App
Registered == <<[id |-> 1, email |-> EmailA], [id |-> 2, email |-> EmailD]>>

\* a later visit: two users have signed up, nobody is logged in
Init ==
    /\ users = Registered
    /\ dbVideos = {}
    /\ dbFaces = {}
    /\ session = <<>>
    /\ nextVideoId = 1
    /\ nextFaceId = 1
    /\ InitPage

SearchStep ==
    \E i \in 1..MaxSearches :
        \/ \E ids \in AnswerIds : FindMatchingResolved(i, ids)
        \/ FindMatchingRejected(i)
        \/ \E aiFails \in BOOLEAN : ChatResponseResolved(i, aiFails)

UploadStep ==
    \E i \in 1..MaxVideos :
        \/ AddFacesResolved(i)
        \/ \E stored \in SUBSET dbFacesInFlight : AddFacesRejected(i, stored)
        \/ AddVideoResolved(i)
        \/ AddVideoRejected(i)

ModalStep ==
    \/ OpenUploadModal
    \/ CloseUploadModal
    \/ \E isVideo \in BOOLEAN : handleFileChange(isVideo)
    \/ modal.videoFile /\ handleSubmit            \* else the button is disabled
    \/ \E errorMessage \in ExtractErrors : ExtractRejected(errorMessage)
    \/ \E frameCount \in {0, FrameCount} : ExtractResolved(frameCount)
    \/ AnalyzeRejected
    \/ \E faceCount \in FaceCounts : AnalyzeResolved(faceCount)

FilterStep ==
    \/ \E faceId \in 1..MaxFaceIds : handleToggleFaceSelection(faceId)
    \/ handleClearSearch

Next ==
    \/ checkLoggedInUser
    \/ \E e \in {EmailA, EmailD} : handleLogin(e, PasswordGood)
    \/ LoginComplete
    \/ logout
    \/ LoadStep
    \/ FilterStep
    \/ \E query \in Queries : handleSearch(query)
    \/ SearchStep
    \/ ModalStep
    \/ UploadStep

\* the whole page; the properties below are checked under its parts
Spec == Init /\ [][Next]_vars

\* ------------------------------------------------------- the page, by parts
\* a reload by user 1, whose library is empty; user 2 has uploaded a video
\* that shows one face
InitUpload ==
    /\ users = Registered
    /\ dbVideos = {[id |-> 1, userId |-> 2, faceIds |-> <<1>>]}
    /\ dbFaces = {[id |-> 1, userId |-> 2, name |-> Null]}
    /\ session = <<"1">>
    /\ nextVideoId = 2
    /\ nextFaceId = 2
    /\ InitPage

\* the modal, with every failure of an analysis; the writes succeed
NextModal ==
    \/ checkLoggedInUser
    \/ LoadStep
    \/ ModalStep
    \/ \E i \in 1..MaxVideos : AddFacesResolved(i) \/ AddVideoResolved(i)

SpecModal == InitUpload /\ [][NextModal]_vars

\* the writes of handleUpload, with every failure; the analyses succeed
NextUpload ==
    \/ checkLoggedInUser
    \/ LoadStep
    \/ OpenUploadModal
    \/ handleFileChange(TRUE)
    \/ modal.videoFile /\ handleSubmit
    \/ ExtractResolved(FrameCount)
    \/ \E faceCount \in FaceCounts : AnalyzeResolved(faceCount)
    \/ UploadStep

SpecUpload == InitUpload /\ [][NextUpload]_vars

\* the modal with the steps of extractFrames; the analysis fails
NextExtract ==
    \/ checkLoggedInUser
    \/ LoadStep
    \/ OpenUploadModal
    \/ handleFileChange(TRUE)
    \/ modal.videoFile /\ handleSubmit
    \/ \E duration \in Durations : ExLoadedMetadata(duration)
    \/ ExSeeked
    \/ ExSeekTimeout
    \/ ExLateSeeked
    \/ ExVideoError
    \/ ExtractSettled
    \/ AnalyzeRejected

SpecExtract == InitUpload /\ [][NextExtract]_vars

\* the modal with the steps of analyzeVideoContent; the frames are extracted
\* and the writes of handleUpload stay in flight
NextAnalyze ==
    \/ checkLoggedInUser
    \/ LoadStep
    \/ OpenUploadModal
    \/ handleFileChange(TRUE)
    \/ modal.videoFile /\ handleSubmit
    \/ ExtractResolved(FrameCount)
    \/ \E response \in AnalysisResponses : AnResponds(response)
    \/ \E k \in 1..2, hasContext \in BOOLEAN : AnCropLoaded(k, hasContext)
    \/ \E k \in 1..2 : AnCropError(k)
    \/ AnalysisSettled

SpecAnalyze == InitUpload /\ [][NextAnalyze]_vars

\* handleUpload applied for every value currentUser may have, null included:
\* a modal whose analysis is about to resolve, in a page of user userId or of
\* nobody
InitHandleUpload ==
    /\ users = Registered
    /\ dbVideos = {[id |-> 1, userId |-> 2, faceIds |-> <<1>>]}
    /\ dbFaces = {[id |-> 1, userId |-> 2, name |-> Null]}
    /\ nextVideoId = 2
    /\ nextFaceId = 2
    /\ \E userId \in 0..Len(Registered) :
          /\ currentUser = IF userId = 0 THEN NoUser ELSE Registered[userId]
          /\ session = IF userId = 0 THEN <<>> ELSE <<String(userId)>>
          /\ modal = [ModalInit EXCEPT !.videoFile = TRUE, !.isAnalyzing = TRUE,
                                       !.pc = "analyze", !.userId = userId,
                                       !.frames = FrameCount]
    /\ authLoading = FALSE
    /\ loginForm = LoginFormInit
    /\ signupForm = SignupFormInit
    /\ videos = <<>> /\ allFaces = <<>>
    /\ isLoading = FALSE /\ error = NoError
    /\ loads = <<>>
    /\ chatHistory = <<>> /\ searchActive = FALSE /\ selectedFaceIds = <<>>
    /\ searches = <<>>
    /\ isModalOpen = TRUE
    /\ uploads = <<>> /\ unhandled = {} /\ renames = <<>> /\ otherTab = OtherTabInit

NextHandleUpload ==
    \/ LoadStep
    \/ OpenUploadModal
    \/ handleFileChange(TRUE)
    \/ modal.videoFile /\ handleSubmit
    \/ ExtractResolved(FrameCount)
    \/ \E faceCount \in FaceCounts : AnalyzeResolved(faceCount)
    \/ UploadStep

SpecHandleUpload == InitHandleUpload /\ [][NextHandleUpload]_vars

\* overlapping loads: logins, logouts and uploads over the database of
\* InitUpload; every read and every write succeeds
NextLoads ==
    \/ checkLoggedInUser
    \/ \E e \in {EmailA, EmailD} : handleLogin(e, PasswordGood)
    \/ LoginComplete
    \/ logout
    \/ \E i \in 1..MaxLoads : LoadVideosRead(i) \/ LoadFacesRead(i) \/ LoadDone(i)
    \/ OpenUploadModal
    \/ handleFileChange(TRUE)
    \/ modal.videoFile /\ handleSubmit
    \/ ExtractResolved(FrameCount)
    \/ \E faceCount \in FaceCounts : AnalyzeResolved(faceCount)
    \/ \E i \in 1..MaxVideos : AddFacesResolved(i) \/ AddVideoResolved(i)

SpecLoads == InitUpload /\ [][NextLoads]_vars

\* a reload by user 1, who has uploaded two videos: the first shows the faces
\* 1 and 2, the second the face 3
LibraryFaces == {[id |-> k, userId |-> 1, name |-> Null] : k \in 1..3}

LibraryVideos ==
    {[id |-> 1, userId |-> 1, faceIds |-> <<1, 2>>],
     [id |-> 2, userId |-> 1, faceIds |-> <<3>>]}

InitSearch ==
    /\ users = Registered
    /\ dbVideos = LibraryVideos
    /\ dbFaces = LibraryFaces
    /\ session = <<"1">>
    /\ nextVideoId = 3
    /\ nextFaceId = 4
    /\ InitPage

\* searches and the face filter over a loaded library
NextSearch ==
    \/ checkLoggedInUser
    \/ LoadStep
    \/ FilterStep
    \/ \E query \in Queries : handleSearch(query)
    \/ SearchStep

SpecSearch == InitSearch /\ [][NextSearch]_vars

\* a reload by user 1, who has uploaded two videos, the first of which shows
\* the one face; user 2 has uploaded nothing
InitSessions ==
    /\ users = Registered
    /\ dbVideos = {[id |-> 1, userId |-> 1, faceIds |-> <<1>>],
                   [id |-> 2, userId |-> 1, faceIds |-> <<>>]}
    /\ dbFaces = {[id |-> 1, userId |-> 1, name |-> Null]}
    /\ session = <<"1">>
    /\ nextVideoId = 3
    /\ nextFaceId = 2
    /\ InitPage

\* one page used by one user after the other: logins and logouts around the
\* searches and the face filter; every read succeeds, and the user logs out
\* when nothing is in flight
NextSessions ==
    \/ checkLoggedInUser
    \/ \E e \in {EmailA, EmailD} : handleLogin(e, PasswordGood)
    \/ LoginComplete
    \/ loads = <<>> /\ searches = <<>> /\ logout
    \/ \E i \in 1..MaxLoads : LoadVideosRead(i) \/ LoadFacesRead(i) \/ LoadDone(i)
    \/ FilterStep
    \/ \E query \in Queries : handleSearch(query)
    \/ SearchStep

SpecSessions == InitSessions /\ [][NextSessions]_vars

\* -------------------------------------------------------------- face names
\* what the input of the name editor of a face card may hold
NameInputs == {<<>>, <<" ">>, <<"B">>, <<" ", "B", " ">>, <<"C">>}

\* useState(face.name || ''): the input of an editor nobody has typed in
initialName(face) == IF face.name = Null THEN <<>> ELSE face.name

\* name.trim() !== face.name
nameDiffers(face, name) == trim(name) # face.name

\* FaceCard.handleNameSubmit for the card of the k-th loaded face, with name in
\* its input: onNameFace is App.handleNameFace, which calls db.updateFaceName
handleNameSubmit(k, name) ==
    /\ MainShown
    /\ ~isModalOpen
    /\ k \in 1..Len(allFaces)
    /\ Len(renames) < MaxRenames
    /\ renames' = IF nameDiffers(allFaces[k], name)
                  THEN Append(renames, [faceId |-> allFaces[k].id, name |-> trim(name)])
                  ELSE renames
    /\ UNCHANGED <<dbVars, authVars, libVars, searchVars, isModalOpen, modal, uploads,
                   unhandled, otherTab, nextVideoId, nextFaceId>>

\* faces.map(face => face.id === faceId ? {...face, name} : face)
withName(face, faceId, name) == IF face.id = faceId THEN [face EXCEPT !.name = name] ELSE face

\* db.updateFaceName resolves: the record is updated, then setAllFaces
UpdateFaceNameResolved(i) ==
    /\ i \in 1..Len(renames)
    /\ dbFaces' = {withName(f, renames[i].faceId, renames[i].name) : f \in dbFaces}
    /\ allFaces' = [k \in 1..Len(allFaces) |->
                       withName(allFaces[k], renames[i].faceId, renames[i].name)]
    /\ renames' = RemoveAt(renames, i)
    /\ UNCHANGED <<users, dbVideos, authVars, videos, isLoading, error, loads,
                   searchVars, isModalOpen, modal, uploads, unhandled, otherTab,
                   nextVideoId, nextFaceId>>

\* db.updateFaceName rejects: nothing catches
UpdateFaceNameRejected(i) ==
    /\ i \in 1..Len(renames)
    /\ unhandled' = unhandled \cup {MsgWriteFailed}
    /\ renames' = RemoveAt(renames, i)
    /\ UNCHANGED <<dbVars, authVars, libVars, searchVars, isModalOpen, modal, uploads,
                   otherTab, nextVideoId, nextFaceId>>

\* the name editors of the face cards over the loaded library of InitSearch
NextNames ==
    \/ checkLoggedInUser
    \/ \E i \in 1..MaxLoads : LoadVideosRead(i) \/ LoadFacesRead(i) \/ LoadDone(i)
    \/ \E k \in 1..MaxFaceIds, name \in NameInputs : handleNameSubmit(k, name)
    \/ \E i \in 1..MaxRenames : UpdateFaceNameResolved(i)
    \/ \E i \in 1..MaxRenames : UpdateFaceNameRejected(i)

SpecNames == InitSearch /\ [][NextNames]_vars

\* searches while uploads and the loads they start are under way
NextBusy ==
    \/ checkLoggedInUser
    \/ LoadStep
    \/ OpenUploadModal
    \/ handleFileChange(TRUE)
    \/ modal.videoFile /\ handleSubmit
    \/ ExtractResolved(FrameCount)
    \/ AnalyzeResolved(1)
    \/ \E i \in 1..MaxVideos : AddFacesResolved(i) \/ AddVideoResolved(i)
    \/ \E query \in Queries : handleSearch(query)
    \/ SearchStep

SpecBusy == InitUpload /\ [][NextBusy]_vars

\* searches whose findMatchingVideos is followed through the response of the
\* AI service
NextMatching ==
    \/ checkLoggedInUser
    \/ LoadStep
    \/ FilterStep
    \/ \E query \in Queries : handleSearch(query)
    \/ \E i \in 1..MaxSearches :
        \/ \E response \in Responses : AiResponds(i, response)
        \/ FindMatchingSettled(i)
        \/ \E aiFails \in BOOLEAN : ChatResponseResolved(i, aiFails)

SpecMatching == InitSearch /\ [][NextMatching]_vars

\* =============================================================== properties
\* some stored user has this email, ignoring case
StoredIgnoringCase(email) ==
    \E i \in 1..Len(users) : toLowerCase(users[i].email) = toLowerCase(email)

\* the step in which the login in flight finishes
LoginFinishes == loginForm.pc = "lookup" /\ loginForm'.pc # "lookup"

\* C1: login performs no password verification: whatever password was
\* entered, a login finishes in success exactly when some stored user has the
\* email ignoring case, currentUser is then that user and the session holds
\* its id, and otherwise neither changes.
C1_LoginIgnoresPassword ==
    [][LoginFinishes =>
        IF StoredIgnoringCase(loginForm.email)
        THEN /\ currentUser' \in Range(users)
             /\ toLowerCase(currentUser'.email) = toLowerCase(loginForm.email)
             /\ session' = <<String(currentUser'.id)>>
        ELSE /\ UNCHANGED <<currentUser, session>>
             /\ loginForm'.error # NoError]_vars

\* a login has succeeded: only login makes an older user the current one
C1_Witness == Len(users) = 2 /\ currentUser = users[1] /\ session = <<"1">>

\* C2: a login whose email matches no stored user (ignoring case) fails with
\* 'No account found with this email. Please sign up.', leaves currentUser,
\* the session and the users table as they were, and the Auth form shows the
\* message with isLoading false.
C2_UnknownEmailFails ==
    [][(LoginFinishes /\ ~StoredIgnoringCase(loginForm.email)) =>
        /\ loginForm'.error = "No account found with this email. Please sign up."
        /\ loginForm'.isLoading = FALSE
        /\ UNCHANGED <<currentUser, session, users>>]_vars

C2_Witness ==
    /\ loginForm.error = "No account found with this email. Please sign up."
    /\ ~loginForm.isLoading
    /\ currentUser = NoUser

\* the step in which the signup in flight finishes
SignupFinishes == signupForm.pc # "idle" /\ signupForm'.pc = "idle"

\* C3: a signup whose email equals a stored email ignoring case fails with
\* 'An account with this email already exists.', adds no user and leaves
\* currentUser and the session; a signup with a fresh email adds exactly one
\* user, which becomes currentUser and whose id the session stores.
C3_SignupOutcome ==
    [][/\ (signupForm.pc # "idle" /\ ~SignupFinishes) => UNCHANGED <<users, currentUser, session>>
       /\ SignupFinishes =>
            IF StoredIgnoringCase(signupForm.email)
            THEN /\ signupForm'.error = "An account with this email already exists."
                 /\ UNCHANGED <<users, currentUser, session>>
            ELSE /\ Len(users') = Len(users) + 1
                 /\ SubSeq(users', 1, Len(users)) = users
                 /\ users'[Len(users')].email = signupForm.email
                 /\ currentUser' = users'[Len(users')]
                 /\ session' = <<String(currentUser'.id)>>]_vars

\* a signup has succeeded and a later one was refused
C3_Witness ==
    /\ signupForm.error = "An account with this email already exists."
    /\ Len(users) >= 1

\* the loaded videos that show every one of these faces
ShowingEvery(faceIds) ==
    {v \in Range(videos) : \A f \in Range(faceIds) : f \in Range(v.faceIds)}

\* C4: face filtering uses AND semantics: in every state displayedVideos is
\* exactly the loaded videos whose faceIds contain every id of
\* selectedFaceIds, all the loaded videos when selectedFaceIds is empty, each
\* once; and computing it (the sort in place included) neither adds a video
\* to the loaded ones nor removes one.
C4_FaceFilterAnd ==
    /\ Range(displayedVideos) = ShowingEvery(selectedFaceIds)
    /\ Len(displayedVideos) = Cardinality(ShowingEvery(selectedFaceIds))
    /\ selectedFaceIds = <<>> => Range(displayedVideos) = Range(videos)
    /\ Range(videosAfterRender(videos, selectedFaceIds)) = Range(videos)
    /\ Len(videosAfterRender(videos, selectedFaceIds)) = Len(videos)

\* two faces are selected that one of the two loaded videos shows together
C4_Witness ==
    /\ Len(videos) = 2
    /\ Len(selectedFaceIds) = 2
    /\ Len(displayedVideos) = 1

\* the step in which the search i in flight appends its assistant message
SearchFinishes(i) ==
    /\ Len(searches') = Len(searches) - 1
    /\ searches' = RemoveAt(searches, i)
    /\ Len(chatHistory') = Len(chatHistory) + 1

\* C5: when faces are selected at the time a query is issued, every video
\* attached to the assistant reply to that query shows every selected face,
\* whatever ids the AI service answered.
C5_SelectedFacesFilterResults ==
    [][\A i \in 1..Len(searches) :
        (/\ searches[i].pc = "responding"
         /\ Len(searches[i].selectedFaceIds) > 0
         /\ SearchFinishes(i)) =>
            LET reply == chatHistory'[Len(chatHistory')]
            IN  \A k \in 1..Len(reply.videos) :
                    \A f \in Range(searches[i].selectedFaceIds) :
                        f \in Range(reply.videos[k].faceIds)]_vars

\* C6: a search that starts with no other search in flight and finishes with
\* no other user action in between leaves the conversation it started from
\* followed by exactly one user message with the query text and no videos,
\* then exactly one assistant message: the reply with the matched videos when
\* it succeeds, the error text with no videos when it fails.
C6_OneQuestionOneAnswer ==
    [][\A i \in 1..Len(searches) :
        (/\ searches[i].alone
         /\ Len(searches') = Len(searches) - 1
         /\ searches' = RemoveAt(searches, i)) =>
            /\ Len(chatHistory') = Len(searches[i].before) + 2
            /\ SubSeq(chatHistory', 1, Len(searches[i].before)) = searches[i].before
            /\ LET question == chatHistory'[Len(chatHistory') - 1]
                   answer == chatHistory'[Len(chatHistory')]
               IN  /\ question.sender = "user"
                   /\ question.text = searches[i].query
                   /\ question.videos = <<>> /\ ~question.hasVideos
                   /\ answer.sender = "ai"
                   /\ IF searches[i].pc = "responding"
                      THEN /\ answer.hasVideos
                           /\ answer.videos = searches[i].matchingVideos
                           /\ answer.text \in {AiReplyText, FallbackNone,
                                               FallbackFound(Len(answer.videos))}
                      ELSE /\ ~answer.hasVideos /\ answer.videos = <<>>
                           /\ answer.text =
                                "Sorry, I encountered an error: Failed to search videos. Please try again."]_vars

\* a first search has run alone and found a video
C6_Witness ==
    /\ searches = <<>>
    /\ Len(chatHistory) = 2
    /\ chatHistory[1].sender = "user" /\ chatHistory[1].text = "birthday"
    /\ chatHistory[2].sender = "ai" /\ Len(chatHistory[2].videos) = 1

\* C7: when findMatchingVideos fails, handleSearch catches: the search ends
\* in that step with the error state holding the message, one assistant
\* message 'Sorry, I encountered an error: <message>' without videos appended
\* and isLoading false; no search calls the AI service for its matches more
\* than once, and a search waiting for its matches either goes on waiting,
\* gets them, or ends.
C7_SearchFailureCaught ==
    /\ [](\A i \in 1..Len(searches) : searches[i].aiCalls <= 1)
    /\ [][\A i \in 1..Len(searches) :
            searches[i].pc = "matching" =>
              \/ /\ Len(searches') >= Len(searches)
                 /\ searches'[i].pc \in {"matching", "responding"}
                 /\ searches'[i].aiCalls = searches[i].aiCalls
              \/ \E j \in 1..Len(searches) :
                    /\ j # i
                    /\ Len(searches') = Len(searches) - 1
                    /\ searches' = RemoveAt(searches, j)
              \/ /\ searches' = RemoveAt(searches, i)
                 /\ error' = "Failed to search videos. Please try again."
                 /\ chatHistory' = Append(chatHistory,
                        [sender |-> "ai", hasVideos |-> FALSE, videos |-> <<>>,
                         text |-> "Sorry, I encountered an error: Failed to search videos. Please try again."])
                 /\ isLoading' = FALSE]_vars

\* a search has failed and was answered with the error text
C7_Witness ==
    /\ searches = <<>>
    /\ error = "Failed to search videos. Please try again."
    /\ Len(chatHistory) = 2
    /\ chatHistory[2].text =
         "Sorry, I encountered an error: Failed to search videos. Please try again."
    /\ ~isLoading

\* the messages extractFrames, handleSubmit and analyzeVideoContent throw
AnalysisErrors ==
    {"Video has no duration or is invalid.",
     "Error loading video for frame extraction. The file might be corrupt or in an unsupported format.",
     "Could not extract frames from the video.",
     "Failed to analyze video content with face detection."}

\* C8: a handleSubmit that awaits extractFrames or analyzeVideoContent ends
\* in one of two ways.  It succeeds, from the analysis of at least one frame,
\* and the modal closes; or it fails: onUpload is not called (no handleUpload
\* starts), the modal stays open, its error is 'Analysis failed: <message>',
\* isAnalyzing is false and nothing is written to the database.  An
\* extraction of zero frames never reaches the analysis, and every ending of
\* the extraction step itself is a failure.
C8_AnalysisFailureKeepsModal ==
    /\ [](modal.pc = "analyze" => modal.frames > 0)
    /\ [][(modal.pc \in {"extract", "analyze"} /\ modal'.pc = "idle") =>
            \/ /\ modal.pc = "analyze"
               /\ ~isModalOpen'
               /\ modal'.error = NoError
               /\ ~modal'.isAnalyzing
            \/ /\ isModalOpen'
               /\ \E m \in AnalysisErrors : modal'.error = "Analysis failed: " \o m
               /\ ~modal'.isAnalyzing
               /\ UNCHANGED <<uploads, nextVideoId, nextFaceId>>
               /\ UNCHANGED dbVars]_vars

\* an extraction gave no frame: the modal is open on the error
C8_Witness ==
    /\ isModalOpen
    /\ modal.error = "Analysis failed: Could not extract frames from the video."
    /\ ~modal.isAnalyzing
    /\ uploads = <<>>

\* the step in which a handleUpload call ends without storing its video
UploadFails ==
    /\ Len(uploads') = Len(uploads) - 1
    /\ dbVideos' = dbVideos

\* C9: when db.addFaces or db.addVideo rejects inside handleUpload, the
\* failure is caught and some error string of the UI (the error of the App
\* or the error of the modal) shows it.
C9_WriteFailureSurfaced ==
    [][UploadFails =>
        /\ unhandled' = unhandled
        /\ error' # NoError \/ modal'.error # NoError]_vars

\* C10: in every state of the database, every id in a stored video's faceIds
\* is the id of a stored face of the video's user, and the userId of every
\* stored video and of every stored face is the id of a stored user.
C10_ForeignKeys ==
    /\ \A v \in dbVideos :
        /\ \E u \in 1..Len(users) : users[u].id = v.userId
        /\ \A k \in 1..Len(v.faceIds) :
              \E f \in dbFaces : f.id = v.faceIds[k] /\ f.userId = v.userId
    /\ \A f \in dbFaces : \E u \in 1..Len(users) : users[u].id = f.userId

\* after a failed write, next to the records of user 2, user 1 has stored a
\* video that shows a face
C10_Witness ==
    /\ unhandled # {}
    /\ \E v \in dbVideos : v.userId = 1 /\ Len(v.faceIds) > 0
    /\ \E v \in dbVideos : v.userId = 2

\* the step in which the modal calls onUpload
OnUploadCalled == modal.pc = "analyze" /\ ~isModalOpen'

\* C11: a handleUpload call of a logged-in user is in flight with one new
\* face per face of the analysis result, each unnamed and of that user; its
\* db.addFaces stores exactly these faces and no video; its db.addVideo
\* stores exactly one new video, of that user, whose faceIds are the ids of
\* the new faces in the order of the analysis result, and no face (the call
\* then reaches its loadUserData).  A call
\* with no user logged in starts nothing and stores nothing.
C11_UploadStoresVideoAndFaces ==
    /\ [](\A i \in 1..Len(uploads) :
            /\ uploads[i].userId # 0
            /\ Len(uploads[i].newFaces) = uploads[i].faceCount
            /\ \A k \in 1..uploads[i].faceCount :
                  /\ uploads[i].newFaces[k].name = Null
                  /\ uploads[i].newFaces[k].userId = uploads[i].userId
                  /\ \A l \in 1..uploads[i].faceCount :
                        uploads[i].newFaces[k].id = uploads[i].newFaces[l].id => k = l)
    /\ [][/\ OnUploadCalled =>
               /\ UNCHANGED dbVars
               /\ IF modal.userId = 0
                  THEN UNCHANGED <<uploads, nextVideoId, nextFaceId>>
                  ELSE /\ Len(uploads') = Len(uploads) + 1
                       /\ uploads'[Len(uploads')].userId = modal.userId
          /\ \A i \in 1..Len(uploads) :
               /\ (/\ uploads[i].pc = "addFaces"
                   /\ Len(uploads') = Len(uploads)
                   /\ uploads'[i].pc = "addVideo") =>
                      /\ Range(uploads[i].newFaces) \cap dbFaces = {}
                      /\ dbFaces' = dbFaces \cup Range(uploads[i].newFaces)
                      /\ Cardinality(dbFaces') = Cardinality(dbFaces) + uploads[i].faceCount
                      /\ UNCHANGED dbVideos
               /\ (/\ uploads[i].pc = "addVideo"
                   /\ Len(uploads') = Len(uploads) - 1
                   /\ uploads' = RemoveAt(uploads, i)
                   /\ Len(loads') = Len(loads) + 1) =>
                      /\ UNCHANGED dbFaces
                      /\ Range(uploads[i].newFaces) \subseteq dbFaces
                      /\ \E v \in dbVideos' :
                            /\ v \notin dbVideos
                            /\ \A w \in dbVideos : w.id # v.id
                            /\ dbVideos' = dbVideos \cup {v}
                            /\ v.userId = uploads[i].userId
                            /\ v.faceIds = [k \in 1..uploads[i].faceCount |->
                                              uploads[i].newFaces[k].id]]_vars

\* user 1 has uploaded a video that shows two faces, in the order found
C11_Witness ==
    /\ uploads = <<>>
    /\ unhandled = {}
    /\ [id |-> 2, userId |-> 1, faceIds |-> <<2, 3>>] \in dbVideos
    /\ {[id |-> 2, userId |-> 1, name |-> Null],
        [id |-> 3, userId |-> 1, name |-> Null]} \subseteq dbFaces

\* C12: once a user is logged in and no loadUserData call is in flight (and
\* no upload is, and no read or write has failed), the videos and the faces
\* in memory are exactly the stored videos and faces of that user.
C12_LoadedEqualsStored ==
    (/\ currentUser # NoUser
     /\ ~authLoading
     /\ loads = <<>>
     /\ uploads = <<>>
     /\ error = NoError
     /\ unhandled = {}) =>
        /\ Range(videos) = {v \in dbVideos : v.userId = currentUser.id}
        /\ Range(allFaces) = {f \in dbFaces : f.userId = currentUser.id}

\* the time s is earlier than the time t
Earlier(s, t) == s.num * t.den < t.num * s.den

\* C13: when extractFrames resolves for a video of finite non-zero duration
\* d, the result holds exactly n = 12 frames, frame i captured at i*d/(n+1),
\* which lies strictly between 0 and d; the seeks are issued in strictly
\* increasing time order, and a seek is issued only when a frame has been
\* captured for every seek before it.
C13_FramesEvenAndSequential ==
    /\ [](LET ex == modal.ex
          IN  /\ ex.outcome = "resolved" =>
                   /\ isFinite(ex.duration) /\ ex.duration.units > 0
                   /\ Len(ex.result) = 12
                   /\ \A i \in 1..Len(ex.result) :
                         /\ ex.result[i].num * 13 = i * ex.duration.units * ex.result[i].den
                         /\ Earlier(Time(0, 1), ex.result[i])
                         /\ Earlier(ex.result[i], Time(ex.duration.units, 1))
                   /\ ex.seeks = ex.result
              /\ \A k \in 1..Len(ex.seeks) : \A l \in 1..Len(ex.seeks) :
                    k < l => Earlier(ex.seeks[k], ex.seeks[l]))
    /\ [][Len(modal'.ex.seeks) > Len(modal.ex.seeks) =>
            /\ Len(modal'.ex.seeks) = Len(modal.ex.seeks) + 1
            /\ Len(modal'.ex.frames) = Len(modal.ex.seeks)
            /\ SubSeq(modal'.ex.seeks, 1, Len(modal.ex.seeks)) = modal'.ex.frames]_vars

\* a video of five units was sampled and handleSubmit went on to the analysis
C13_Witness ==
    /\ modal.pc = "analyze"
    /\ modal.frames = 12
    /\ modal.ex.outcome = "resolved"
    /\ modal.ex.duration = Duration(TRUE, 5)
    /\ modal.ex.result[12] = Time(60, 13)

LocalAtDomainTld(s) ==
    /\ Cardinality({i \in 1..Len(s) : s[i] = "@"}) = 1
    /\ \A i \in 1..Len(s) : s[i] # " "
    /\ s[1] # "@"
    /\ \E i \in 1..Len(s) : \E j \in 1..Len(s) :
          s[i] = "@" /\ s[j] = "." /\ i + 1 < j /\ j < Len(s)

\* only white space, or nothing
Blank(s) == \A i \in 1..Len(s) : s[i] = " "

\* the step in which the signup form is submitted
SignupSubmitted ==
    /\ signupForm.pc = "idle"
    /\ ~signupForm.isLoading
    /\ signupForm' # signupForm

\* C15: a submitted signup form checks, in this order, that email and
\* password are not blank, that the email is local@domain.tld, and that the
\* password has at least 6 characters; the first check that fails sets its
\* own message and leaves users, currentUser and isLoading; signup is called
\* only when all three pass.
C15_SignupValidationOrder ==
    [][SignupSubmitted =>
        LET e == signupForm.email
            p == signupForm.password
            failed == IF Blank(e) \/ Blank(p)
                         THEN "Please enter both email and password."
                      ELSE IF ~LocalAtDomainTld(e)
                         THEN "Please enter a valid email address."
                      ELSE IF Len(p) < 6
                         THEN "Password must be at least 6 characters long."
                      ELSE ""
        IN  IF failed # ""
            THEN /\ signupForm'.error = failed
                 /\ signupForm'.pc = "idle"
                 /\ signupForm'.isLoading = FALSE
                 /\ UNCHANGED <<users, currentUser, session>>
            ELSE /\ signupForm'.pc = "check"
                 /\ signupForm'.isLoading
                 /\ signupForm'.error = NoError
                 /\ UNCHANGED <<users, currentUser, session>>]_vars

\* an email without a top-level domain and a short password: the email's
\* message is the one shown
C15_Witness ==
    /\ signupForm.email = EmailNoDot
    /\ signupForm.password = PasswordShort
    /\ signupForm.error = "Please enter a valid email address."
    /\ signupForm.pc = "idle"

\* the users whose id the session storage holds (one or none)
SessionUsers == {u \in Range(users) : session = <<ToString(u.id)>>}

\* C16: the startup check ends with currentUser the stored user whose id the
\* session storage holds, or null; null it is when the session storage holds
\* no id or the id of no stored user (and when the lookup fails); the auth
\* isLoading flag eventually becomes false, and once false it stays false.
C16_StartupCheck ==
    /\ [][(authLoading /\ ~authLoading') =>
            /\ currentUser' \in SessionUsers \cup {NoUser}
            /\ SessionUsers = {} => currentUser' = NoUser
            /\ UNCHANGED <<session, users>>]_vars
    /\ [][~authLoading => ~authLoading']_vars
    /\ <>[](~authLoading)

\* the page was loaded in a tab of user 1 and shows that user's library
C16_Witness ==
    /\ ~authLoading
    /\ session = <<"1">>
    /\ currentUser = [id |-> 1, email |-> EmailA]
    /\ loginForm = LoginFormInit
    /\ loads = <<>>

\* C17: generateChatResponse never fails: a search whose matching step has
\* succeeded leaves only by appending one assistant message that carries the
\* matched videos, with the text of the AI service or, when that call
\* failed, 'I found <n> video(s) that match your memory.' for n > 0 matched
\* videos and 'I couldn't find any videos matching that memory.' for none;
\* the step leaves the error state as it was and resets isLoading.
C17_ChatResponseNeverFails ==
    [][\A i \in 1..Len(searches) :
        (/\ searches[i].pc = "responding"
         /\ Len(searches') = Len(searches) - 1
         /\ searches' = RemoveAt(searches, i)) =>
            LET n == Len(searches[i].matchingVideos)
                fallback ==
                    IF n > 0
                    THEN "I found " \o ToString(n) \o " video(s) that match your memory."
                    ELSE "I couldn't find any videos matching that memory."
            IN  /\ Len(chatHistory') = Len(chatHistory) + 1
                /\ SubSeq(chatHistory', 1, Len(chatHistory)) = chatHistory
                /\ LET reply == chatHistory'[Len(chatHistory')]
                   IN  /\ reply.sender = "ai"
                       /\ reply.hasVideos
                       /\ reply.videos = searches[i].matchingVideos
                       /\ reply.text \in {AiReplyText, fallback}
                /\ error' = error
                /\ ~isLoading']_vars

\* a search that matched one video was answered with the fallback text
C17_Witness ==
    /\ searches = <<>>
    /\ Len(chatHistory) = 2
    /\ chatHistory[2].text = "I found 1 video(s) that match your memory."
    /\ Len(chatHistory[2].videos) = 1
    /\ error = NoError

\* the search i leaves its matching phase in this step
MatchingSettles(i) ==
    /\ searches[i].pc = "matching"
    /\ \/ searches' = RemoveAt(searches, i)
       \/ Len(searches') = Len(searches) /\ searches'[i].pc # "matching"

\* the search i goes on with the videos whose ids are in ids
MatchedWith(i, ids) ==
    /\ Len(searches') = Len(searches)
    /\ searches'[i].pc = "responding"
    /\ searches'[i].matchingVideos = SelectSeq(searches[i].videos, LAMBDA v : v.id \in ids)
    /\ UNCHANGED <<error, chatHistory>>

\* C18: findMatchingVideos has three outcomes.  Given no videos it returns
\* the empty list without a call of the AI service.  When the response text
\* is JSON but no array of strings it returns the empty list.  When the call
\* fails, the response has no text or the text is no JSON, it fails with
\* 'Failed to search videos. Please try again.'.  An array of strings is
\* returned as it is: the search goes on with every video of the library
\* whose id it names, given to the function or not.
C18_FindMatchingOutcomes ==
    /\ [](\A i \in 1..Len(searches) :
            Len(searches[i].videosToSearch) = 0 =>
                searches[i].aiCalls = 0 /\ searches[i].response.kind = "none")
    /\ [][\A i \in 1..Len(searches) :
            MatchingSettles(i) =>
                LET r == searches[i].response
                    failed == "Failed to search videos. Please try again."
                    sorry == "Sorry, I encountered an error: " \o failed
                IN  IF Len(searches[i].videosToSearch) = 0
                    THEN MatchedWith(i, {})
                    ELSE /\ r.kind \in {"error", "notext", "text"}
                         /\ (\/ r.kind \in {"error", "notext"}
                             \/ r.text \in {<<"o", "k">>,
                                            <<"[", "\"", "1", "\"">>}) =>
                                /\ searches' = RemoveAt(searches, i)
                                /\ error' = failed
                                /\ chatHistory'[Len(chatHistory')].text = sorry
                         /\ r.text \in {<<"{", "}">>, <<"n", "u", "l", "l">>, <<"1">>,
                                        <<"[", "1", "]">>,
                                        <<"[", "\"", "1", "\"", ",", "2", "]">>,
                                        <<"[", "]">>,
                                        <<"[", "\"", "9", "\"", "]">>} =>
                                MatchedWith(i, {})
                         /\ r.text = <<"[", "\"", "1", "\"", "]">> => MatchedWith(i, {1})
                         /\ r.text = <<" ", "[", " ", "\"", "2", "\"", "]", " ">> =>
                                MatchedWith(i, {2})
                         /\ r.text = <<"[", "\"", "1", "\"", ",", "\"", "2", "\"", "]">> =>
                                MatchedWith(i, {1, 2})]_vars

\* the AI service was given the one video that shows face 3 and named the
\* other video: the search goes on with that video
C18_Witness ==
    \E i \in 1..Len(searches) :
        /\ searches[i].pc = "responding"
        /\ searches[i].selectedFaceIds = <<3>>
        /\ Len(searches[i].videosToSearch) = 1
        /\ searches[i].response.text = <<"[", "\"", "1", "\"", "]">>
        /\ Len(searches[i].matchingVideos) = 1
        /\ searches[i].matchingVideos[1].id = 1
        /\ searches[i].matchingVideos[1] \notin Range(searches[i].videosToSearch)

\* the response of the AI service is a call of extractVideoDetails whose
\* arguments pass the checks of analyzeVideoContent
WellFormed(r) ==
    /\ r.kind = "call"
    /\ r.name = "extractVideoDetails"
    /\ r.args.description.defined /\ r.args.description.value # <<>>
    /\ r.args.facesIsArray /\ r.args.segmentsIsArray /\ r.args.onScreenTextIsArray
    /\ r.args.transcript.defined

\* C19: every failure inside analyzeVideoContent (the AI call fails, there is
\* no function call or one with another name, the description is missing or
\* empty, faces, segments or onScreenText is no array, the transcript is
\* undefined, a face crop fails) has made the call fail with 'Failed to
\* analyze video content with face detection.'; a transcript that is the
\* empty string is accepted.
C19_AnalysisFailuresReported ==
    LET an == modal.an
    IN  an.pc # "calling" =>
          /\ (\/ ~WellFormed(an.response)
              \/ \E k \in 1..Len(an.crops) :
                     an.crops[k] \in {"nocontext", "failed", "thrown"}) =>
                 /\ an.outcome = "rejected"
                 /\ an.error = "Failed to analyze video content with face detection."
          /\ (/\ WellFormed(an.response)
              /\ an.response.args.transcript.value = <<>>
              /\ an.response.args.faces = <<>>) =>
                 an.outcome = "fulfilled" /\ an.result.transcript = <<>>

\* the faces of the response whose frameIndex names one of frameCount frames
FacesWithFrame(r, frameCount) ==
    SelectSeq(r.args.faces, LAMBDA f : 0 <= f.frameIndex /\ f.frameIndex < frameCount)

\* C20: analyzeVideoContent returns one face per face of the response whose
\* frameIndex indexes an extracted frame, in the order of the response, and
\* drops the others: it returns no more faces than the response has, and a
\* well-formed response whose faces with a frame are all cropped makes the
\* call return, whatever faces were dropped.
C20_FacesOutOfRangeDropped ==
    LET an == modal.an
        expected == FacesWithFrame(an.response, modal.frames)
    IN  modal.pc = "analyze" =>
          /\ an.outcome = "fulfilled" =>
                /\ Len(an.result.faces) = Len(expected)
                /\ Len(an.result.faces) <= Len(an.response.args.faces)
                /\ \A j \in 1..Len(expected) :
                      /\ an.result.faces[j].description = expected[j].description
                      /\ an.result.faces[j].image = expected[j].frameIndex
          /\ (/\ an.pc # "calling"
              /\ WellFormed(an.response)
              /\ \A k \in 1..Len(an.crops) :
                    an.crops[k] = "cropped" \/
                    ~(an.response.args.faces[k].frameIndex \in 0..(modal.frames - 1))) =>
                an.outcome = "fulfilled"

\* the response named a frame after the last for its first face and the
\* first frame for its second face: the call has returned the second face
C20_Witness ==
    /\ modal.pc = "analyze"
    /\ modal.an.outcome = "fulfilled"
    /\ Len(modal.an.response.args.faces) = 2
    /\ modal.an.response.args.faces[1].frameIndex = FrameCount
    /\ modal.an.crops = <<"dropped", "cropped">>
    /\ Len(modal.an.result.faces) = 1
    /\ modal.an.result.faces[1].description = "second"

\* the same videos, in whatever order
SameElements(a, b) == Len(a) = Len(b) /\ Range(a) = Range(b)

\* what neither click on the face filter touches, the loaded videos apart
FilterFrame == UNCHANGED <<users, dbVideos, dbFaces, allFaces, currentUser, session>>

\* C21 as stated: handleClearSearch leaves chatHistory empty, searchActive
\* false and selectedFaceIds empty, handleToggleFaceSelection leaves
\* chatHistory empty and searchActive false, and neither changes the loaded
\* videos (the array videos, as it is), the loaded faces, currentUser or any
\* database record.
C21_FilterClicksKeepVideosAsTheyAre ==
    [][(handleClearSearch \/ \E faceId \in 1..MaxFaceIds : handleToggleFaceSelection(faceId)) =>
          /\ chatHistory' = <<>> /\ ~searchActive'
          /\ videos' = videos
          /\ FilterFrame]_vars

\* C21, with the order of the loaded videos left open: handleClearSearch
\* leaves chatHistory empty, searchActive false and selectedFaceIds empty,
\* handleToggleFaceSelection leaves chatHistory empty and searchActive false,
\* and neither changes the loaded faces, currentUser, any database record or
\* which videos are loaded; the array videos may come out in another order
\* (the render that follows sorts it in place when no face is selected).
C21_FilterClicksKeepLibrary ==
    /\ [][handleClearSearch =>
            /\ chatHistory' = <<>> /\ ~searchActive' /\ selectedFaceIds' = <<>>
            /\ SameElements(videos', videos)
            /\ FilterFrame]_vars
    /\ [][(\E faceId \in 1..MaxFaceIds : handleToggleFaceSelection(faceId)) =>
            /\ chatHistory' = <<>> /\ ~searchActive'
            /\ SameElements(videos', videos)
            /\ FilterFrame]_vars

\* a search is still in flight, and a click on the face filter has emptied
\* the conversation it had started; the two videos are loaded
C21_Witness ==
    /\ Len(searches) = 1
    /\ chatHistory = <<>> /\ ~searchActive /\ selectedFaceIds = <<>>
    /\ Len(videos) = 2
    /\ currentUser = users[1]

\* C22: handleToggleFaceSelection adds the face id when it is not selected
\* and removes it when it is selected; from every selection the page reaches,
\* toggling one face twice gives back the same selected faces, toggling two
\* different faces selects or deselects both whichever comes first, and no
\* selection holds an id twice.
C22_ToggleAddsOrRemoves ==
    /\ [][\A faceId \in 1..MaxFaceIds :
            handleToggleFaceSelection(faceId) =>
                Range(selectedFaceIds') =
                    IF faceId \in Range(selectedFaceIds)
                    THEN Range(selectedFaceIds) \ {faceId}
                    ELSE Range(selectedFaceIds) \cup {faceId}]_vars
    /\ [](\A j, k \in 1..Len(selectedFaceIds) :
            selectedFaceIds[j] = selectedFaceIds[k] => j = k)
    /\ [](\A f, g \in 1..MaxFaceIds :
            LET once == newSelectedFaceIdsOf(selectedFaceIds, f)
                twice == newSelectedFaceIdsOf(once, f)
                fg == newSelectedFaceIdsOf(once, g)
                gf == newSelectedFaceIdsOf(newSelectedFaceIdsOf(selectedFaceIds, g), f)
            IN  /\ Range(twice) = Range(selectedFaceIds)
                /\ Len(twice) = Len(selectedFaceIds)
                /\ f # g =>
                      /\ Range(fg) = Range(gf)
                      /\ \A h \in {f, g} :
                            h \in Range(fg) <=> h \notin Range(selectedFaceIds))

\* the faces 1 and 2 were selected in this order, and face 1 was then
\* toggled twice: the same faces are selected
C22_Witness ==
    /\ selectedFaceIds = <<2, 1>>
    /\ Len(allFaces) = 3

\* C23: submitting the name editor of a face card without having typed (its
\* input still holds face.name || '') makes no call of onNameFace, so nothing
\* is written and an unnamed face stays unnamed.
C23_SubmitWithoutTypingCallsNothing ==
    [][\A k \in 1..Len(allFaces) :
          handleNameSubmit(k, initialName(allFaces[k])) => renames' = renames]_vars

\* what does hold of C23: a resolved handleNameFace changes the name of that
\* face and nothing else, in the table and in allFaces alike
C23_RenameChangesOnlyThatFace ==
    [][\A i \in 1..Len(renames) :
          UpdateFaceNameResolved(i) =>
              /\ \A f \in dbFaces :
                    \E g \in dbFaces' :
                        /\ g.id = f.id /\ g.userId = f.userId
                        /\ g.name = IF f.id = renames[i].faceId
                                    THEN renames[i].name ELSE f.name
              /\ Cardinality(dbFaces') = Cardinality(dbFaces)
              /\ Len(allFaces') = Len(allFaces)
              /\ \A k \in 1..Len(allFaces) :
                    /\ allFaces'[k].id = allFaces[k].id
                    /\ allFaces'[k].name = IF allFaces[k].id = renames[i].faceId
                                           THEN renames[i].name ELSE allFaces[k].name
              /\ dbVideos' = dbVideos /\ users' = users /\ videos' = videos]_vars

\* an unnamed face whose editor was submitted empty is stored with the name ''
C23_UnnamedBecameEmptyString ==
    \E f \in dbFaces : f.name = <<>>

\* C24: at most one search is in flight, and isLoading is true for as long
\* as a search has not appended its assistant message, whatever uploads and
\* loads are under way.
C24_OneSearchInFlight ==
    /\ Len(searches) <= 1
    /\ searches # <<>> => isLoading

\* a second search was started while the first one awaits its answer
C24_TwoSearchesInFlight ==
    /\ Len(searches) = 2
    /\ searches[1].pc = "matching"

\* C25: the conversation alternates user and assistant messages and starts
\* with a user message, also when the search is cleared or a face is toggled
\* while a search is in flight.
C25_ChatAlternates ==
    \A k \in 1..Len(chatHistory) :
        chatHistory[k].sender = IF k % 2 = 1 THEN "user" ELSE "ai"

\* the answer of a search whose question was cleared away opens the
\* conversation
C25_AnswerWithoutQuestion ==
    /\ chatHistory # <<>>
    /\ chatHistory[1].sender = "ai"
    /\ searches = <<>>

\* C26: whoever is logged in, the loaded videos and faces, the videos of the
\* messages of the conversation and the selected faces all belong to that
\* user.
C26_ShownDataIsOfCurrentUser ==
    MainShown =>
        /\ \A k \in 1..Len(videos) : videos[k].userId = currentUser.id
        /\ \A k \in 1..Len(allFaces) : allFaces[k].userId = currentUser.id
        /\ \A m \in 1..Len(chatHistory) :
              \A k \in 1..Len(chatHistory[m].videos) :
                  chatHistory[m].videos[k].userId = currentUser.id
        /\ \A k \in 1..Len(selectedFaceIds) :
              \A f \in dbFaces :
                  f.id = selectedFaceIds[k] => f.userId = currentUser.id

\* user 2 is logged in and their own, empty library has been loaded; the
\* conversation still shows a video of user 1 and a face of user 1 is still
\* selected
C26_OtherUsersDataShown ==
    /\ MainShown
    /\ currentUser.id = 2
    /\ loads = <<>>
    /\ videos = <<>>
    /\ \E m \in 1..Len(chatHistory) :
          \E k \in 1..Len(chatHistory[m].videos) : chatHistory[m].videos[k].userId = 1
    /\ selectedFaceIds = <<1>>

\* the session storage holds an id exactly when somebody is logged in
SessionIffUser == session # <<>> <=> currentUser # NoUser

\* C27 as stated: once the startup check has finished, every login, signup
\* and logout, failed or not, ends in a state where the session storage holds
\* an id exactly when currentUser is not null.
C27_SessionIffCurrentUser ==
    [][(~authLoading /\ (LoginFinishes \/ SignupFinishes \/ logout)) =>
          SessionIffUser']_vars

\* C27: once the startup check has finished, whoever is logged in is the user
\* whose id the session storage holds; a login or signup that succeeds and a
\* logout end with the session storage holding an id exactly when currentUser
\* is not null, every other step keeps that so, and a failed login or signup
\* changes neither currentUser nor the session storage.
C27_SessionFollowsCurrentUser ==
    /\ [](~authLoading /\ currentUser # NoUser =>
            session = <<String(currentUser.id)>>)
    /\ [][(LoginFinishes /\ loginForm'.error = NoError) => SessionIffUser' /\ currentUser' # NoUser]_vars
    /\ [][(SignupFinishes /\ signupForm'.error = NoError) => SessionIffUser' /\ currentUser' # NoUser]_vars
    /\ [][logout => session' = <<>> /\ currentUser' = NoUser]_vars
    /\ [][(~authLoading /\ SessionIffUser) => SessionIffUser']_vars
    /\ [][((LoginFinishes /\ loginForm'.error # NoError)
            \/ (SignupFinishes /\ signupForm'.error # NoError)) =>
              UNCHANGED <<currentUser, session>>]_vars

\* the page was loaded with one stored user; a second one has signed up and
\* is logged in
C27_Witness ==
    /\ ~authLoading
    /\ Len(users) = 2
    /\ currentUser = users[2]
    /\ session = <<"2">>

\* a login has failed in a tab whose session storage holds an id that the
\* startup check could not resolve
C27_StaleIdAfterFailedLogin ==
    /\ ~authLoading
    /\ currentUser = NoUser
    /\ session # <<>>
    /\ loginForm.error = MsgNoAccount

\* C28: no two records of the users table hold emails that are equal
\* ignoring case, however the signup calls of two tabs interleave.
C28_EmailsDifferIgnoringCase ==
    \A i, j \in 1..Len(users) :
        toLowerCase(users[i].email) = toLowerCase(users[j].email) => i = j

\* both tabs have signed up, one with a@b.c and the other with A@b.c
C28_TwoAccountsOneEmail ==
    /\ Len(users) = 2
    /\ users[1].email # users[2].email
    /\ toLowerCase(users[1].email) = toLowerCase(users[2].email)
    /\ otherTab.pc = "idle"
    /\ signupForm.pc = "idle"

====
